---- MODULE Spec2Model ----
(***************************************************************************)
(* Model of the boopin attendance dashboard: the two data hooks            *)
(* (useAttendanceData, useEmployeeData), the client-side aggregation and   *)
(* de-duplication they perform, the CSV export helper, and the Dashboard   *)
(* with its four tabs.                                                     *)
(*                                                                         *)
(* JavaScript values are tagged records: NullV (null / undefined),         *)
(* Str(s) with s a sequence of one-character tokens, and Num(n) with n the *)
(* number in hundredths (Num(850) is 8.5, Num(700) is 7).                  *)
(***************************************************************************)
EXTENDS Integers, Sequences, FiniteSets, TLC

\* ------------------------------------------------------------------------
\* Bounds of the model
\* ------------------------------------------------------------------------
MaxWeekRecords == 3
MaxEmpRows == 3
\* Rows per page of loadEmployees (const rangeSize = 1000 in the source,
\* scaled down so that tables of a few rows span several pages)
rangeSize == 2

\* ------------------------------------------------------------------------
\* JavaScript values and the coercions the code applies to them
\* ------------------------------------------------------------------------
NullV == [t |-> "null", s |-> <<>>, n |-> 0]
Str(s) == [t |-> "str", s |-> s, n |-> 0]
Num(n) == [t |-> "num", s |-> <<>>, n |-> n]

\* Truthiness: null, undefined, '' and 0 are falsy.
Falsy(v) == \/ v.t = "null"
            \/ v.t = "str" /\ v.s = <<>>
            \/ v.t = "num" /\ v.n = 0

\* v || ''
OrEmpty(v) == IF Falsy(v) THEN Str(<<>>) ELSE v

\* v || 0 on a numeric field
OrZero(v) == IF Falsy(v) THEN 0 ELSE v.n

Digit(d) == <<"0", "1", "2", "3", "4", "5", "6", "7", "8", "9">>[d + 1]

RECURSIVE NatDigits(_)
NatDigits(k) == IF k < 10 THEN <<Digit(k)>>
                ELSE NatDigits(k \div 10) \o <<Digit(k % 10)>>

\* Number.prototype.toString of a non-negative number held in hundredths:
\* 850 -> "8.5", 825 -> "8.25", 800 -> "8".
NumToString(n) ==
  LET whole == NatDigits(n \div 100)
      frac  == n % 100
  IN  IF frac = 0 THEN whole
      ELSE IF frac % 10 = 0 THEN whole \o <<".", Digit(frac \div 10)>>
      ELSE whole \o <<".", Digit(frac \div 10), Digit(frac % 10)>>

\* String(v)
JSString(v) == CASE v.t = "str" -> v.s
                 [] v.t = "num" -> NumToString(v.n)
                 [] OTHER       -> <<"n", "u", "l", "l">>

WhiteSpace == {" ", "\t", "\n", "\r"}

RECURSIVE TrimStart(_)
TrimStart(s) == IF s # <<>> /\ Head(s) \in WhiteSpace THEN TrimStart(Tail(s)) ELSE s

RECURSIVE TrimEnd(_)
TrimEnd(s) == IF s # <<>> /\ s[Len(s)] \in WhiteSpace
              THEN TrimEnd(SubSeq(s, 1, Len(s) - 1)) ELSE s

\* String.prototype.trim
Trim(s) == TrimEnd(TrimStart(s))

\* String(v || '').trim(), the normalisation of emp_code and name
NormStr(v) == Trim(JSString(OrEmpty(v)))

\* Collation rank of a character, for localeCompare.
CharRank(c) ==
  CASE c = " " -> 0 [] c = "," -> 1 [] c = "\"" -> 2 [] c = "\n" -> 0
    [] c = "7" -> 10 [] c = "8" -> 11
    [] c = "A" -> 20 [] c = "B" -> 21 [] c = "C" -> 22 [] c = "D" -> 23
    [] OTHER -> 30

\* a.localeCompare(b) < 0
RECURSIVE LocaleLess(_, _)
LocaleLess(a, b) ==
  IF b = <<>> THEN FALSE
  ELSE IF a = <<>> THEN TRUE
  ELSE IF CharRank(Head(a)) # CharRank(Head(b)) THEN CharRank(Head(a)) < CharRank(Head(b))
  ELSE LocaleLess(Tail(a), Tail(b))

\* Array.prototype.sort((a, b) => a.name.localeCompare(b.name)): a stable
\* insertion sort on the name field.
RECURSIVE InsertByName(_, _)
InsertByName(sorted, e) ==
  IF sorted = <<>> THEN <<e>>
  ELSE IF LocaleLess(e.name, Head(sorted).name) THEN <<e>> \o sorted
  ELSE <<Head(sorted)>> \o InsertByName(Tail(sorted), e)

RECURSIVE SortByName(_)
SortByName(arr) ==
  IF arr = <<>> THEN <<>>
  ELSE InsertByName(SortByName(SubSeq(arr, 1, Len(arr) - 1)), arr[Len(arr)])

\* Index of the entry with the given key in a Map kept in insertion order;
\* 0 when the key is absent (Map.has is false).
MapIndex(map, key) ==
  IF \E i \in 1..Len(map) : map[i].emp_code = key
  THEN CHOOSE i \in 1..Len(map) : map[i].emp_code = key
  ELSE 0

\* ------------------------------------------------------------------------
\* useEmployeeData.loadWeeklyEmployeeData: grouping of the daily records of
\* a week into one summary per employee
\* ------------------------------------------------------------------------
OnTimeCategories == {Str(<<"On Time">>), Str(<<"On-time Check-in">>), Str(<<"Early Check-in">>)}
LateCategories == {Str(<<"Late Check-in">>), Str(<<"Late">>)}

\* employeeMap.set(empCodeStr, {...}) for a code seen for the first time
NewWeeklyEmployee(empCodeStr, nameStr) ==
  [emp_code |-> empCodeStr, name |-> nameStr, days |-> <<>>,
   totalDays |-> 0, presentDays |-> 0, leaveDays |-> 0, totalHours |-> 0,
   onTimeDays |-> 0, lateDays |-> 0, dailyBreakdown |-> <<>>]

\* dailyBreakdown[record.date] = {...}: the entry of that date is replaced,
\* a new date is appended.
SetBreakdown(breakdown, record) ==
  LET entry == [date |-> record.date, check_in |-> record.check_in,
                check_out |-> record.check_out, work_hours |-> record.work_hours,
                status |-> record.status, time_category |-> record.time_category]
  IN  IF \E i \in 1..Len(breakdown) : breakdown[i].date = record.date
      THEN [i \in 1..Len(breakdown) |->
              IF breakdown[i].date = record.date THEN entry ELSE breakdown[i]]
      ELSE Append(breakdown, entry)

\* CountWeeklyRecord without the else branch that counts a leave day
CountWeeklyRecord_NoLeave(employee, record) ==
  LET present == record.status = Str(<<"Present">>)
  IN  [employee EXCEPT
        !.days = Append(@, record),
        !.totalDays = @ + 1,
        !.presentDays = IF present THEN @ + 1 ELSE @,
        !.totalHours = IF present THEN @ + OrZero(record.work_hours) ELSE @]

\* CountWeeklyRecord adding the hours of every record, whatever its status
CountWeeklyRecord_AllHours(employee, record) ==
  LET present == record.status = Str(<<"Present">>)
  IN  [employee EXCEPT
        !.days = Append(@, record),
        !.totalDays = @ + 1,
        !.presentDays = IF present THEN @ + 1 ELSE @,
        !.totalHours = @ + OrZero(record.work_hours),
        !.leaveDays = IF present THEN @ ELSE @ + 1]

\* The body of data.forEach for a record whose employee is already in the map
CountWeeklyRecord(employee, record) ==
  LET present == record.status = Str(<<"Present">>)
  IN  [employee EXCEPT
        !.days = Append(@, record),
        !.totalDays = @ + 1,
        !.dailyBreakdown = SetBreakdown(@, record),
        !.presentDays = IF present THEN @ + 1 ELSE @,
        !.totalHours = IF present THEN @ + OrZero(record.work_hours) ELSE @,
        !.onTimeDays = IF present /\ record.time_category \in OnTimeCategories
                       THEN @ + 1 ELSE @,
        !.lateDays = IF present /\ record.time_category \notin OnTimeCategories
                        /\ record.time_category \in LateCategories
                     THEN @ + 1 ELSE @,
        !.leaveDays = IF present THEN @ ELSE @ + 1]

\* One iteration of data.forEach(record => ...)
WeeklyStep(employeeMap, record) ==
  LET empCodeStr == NormStr(record.emp_code)
      nameStr == NormStr(record.name)
  IN  IF empCodeStr = <<>> THEN employeeMap
      ELSE LET map1 == IF MapIndex(employeeMap, empCodeStr) = 0
                       THEN Append(employeeMap, NewWeeklyEmployee(empCodeStr, nameStr))
                       ELSE employeeMap
               k == MapIndex(map1, empCodeStr)
           IN  [map1 EXCEPT ![k] = CountWeeklyRecord(@, record)]

RECURSIVE WeeklyEmployeeMap(_)
WeeklyEmployeeMap(data) ==
  IF data = <<>> THEN <<>>
  ELSE WeeklyStep(WeeklyEmployeeMap(SubSeq(data, 1, Len(data) - 1)), data[Len(data)])

\* processedData of loadWeeklyEmployeeData
ProcessWeekly(data) == SortByName(WeeklyEmployeeMap(data))

\* ------------------------------------------------------------------------
\* lib/utils.ts: CSV export
\* ------------------------------------------------------------------------
Contains(s, c) == \E i \in 1..Len(s) : s[i] = c

\* stringValue.replace(/"/g, '""')
RECURSIVE DoubleQuotes(_)
DoubleQuotes(s) ==
  IF s = <<>> THEN <<>>
  ELSE (IF Head(s) = "\"" THEN <<"\"", "\"">> ELSE <<Head(s)>>) \o DoubleQuotes(Tail(s))

\* escapeCSV that wraps in quotes without doubling the quotes inside
escapeCSV_NoDoubling(value) ==
  IF value.t = "null" THEN <<>>
  ELSE LET stringValue == JSString(value)
       IN  IF Contains(stringValue, ",") \/ Contains(stringValue, "\"")
              \/ Contains(stringValue, "\n")
           THEN <<"\"">> \o stringValue \o <<"\"">>
           ELSE stringValue

\* escapeCSV that does not look for newlines
escapeCSV_NoNewline(value) ==
  IF value.t = "null" THEN <<>>
  ELSE LET stringValue == JSString(value)
       IN  IF Contains(stringValue, ",") \/ Contains(stringValue, "\"")
           THEN <<"\"">> \o DoubleQuotes(stringValue) \o <<"\"">>
           ELSE stringValue

\* escapeCSV(value)
escapeCSV(value) ==
  IF value.t = "null" THEN <<>>
  ELSE LET stringValue == JSString(value)
       IN  IF Contains(stringValue, ",") \/ Contains(stringValue, "\"")
              \/ Contains(stringValue, "\n")
           THEN <<"\"">> \o DoubleQuotes(stringValue) \o <<"\"">>
           ELSE stringValue

\* Math.round(x): the nearest integer, halves going up; x = num / den >= 0
MathRound(num, den) == (2 * num + den) \div (2 * den)

\* calculateAttendanceRate(presentDays, totalDays), both plain counts
calculateAttendanceRate(presentDays, totalDays) ==
  IF totalDays = 0 THEN 0 ELSE MathRound(presentDays * 100, totalDays)

\* Math.round(hours * 10) / 10 on hours held in hundredths
roundHours(hours) == MathRound(hours, 10) * 10

\* Array.prototype.join
RECURSIVE Join(_, _)
Join(parts, sep) ==
  IF parts = <<>> THEN <<>>
  ELSE IF Len(parts) = 1 THEN parts[1]
  ELSE parts[1] \o sep \o Join(Tail(parts), sep)

ExportTypes == {"daily", "weekly", "weeklyDetails", "employee", "monthly"}

\* headers of each export type
Headers(type) ==
  CASE type = "daily" ->
         <<"Date", "Total Employees", "Early Count", "On-time Count", "Acceptable Count",
           "Late Count", "On-time Rate (%)", "Earliest Check-in", "Latest Check-in">>
    [] type = "weekly" ->
         <<"Week Start", "Week End", "Total Employees", "Perfect Attendance Count",
           "Perfect Attendance Rate (%)">>
    [] type = "weeklyDetails" ->
         <<"Employee Code", "Name", "Total Days", "Present Days", "Leave Days",
           "Total Hours", "On-time Days", "Late Days", "Attendance Rate (%)">>
    [] type \in {"employee", "monthly"} ->
         <<"Date", "Employee Code", "Name", "Check In", "Check Out", "Work Hours",
           "Total Punches", "Status", "Time Category">>
    [] OTHER -> <<>>

\* DataLine with the first two cells swapped
DataCells_Swapped(type, row) ==
  CASE type = "daily" ->
         <<escapeCSV(row.total_employees_present), escapeCSV(row.date),
           escapeCSV(row.early_count), escapeCSV(row.ontime_count),
           escapeCSV(row.acceptable_count), escapeCSV(row.late_count),
           escapeCSV(row.ontime_rate), escapeCSV(OrEmpty(row.earliest_checkin)),
           escapeCSV(OrEmpty(row.latest_checkin))>>
    [] type = "weekly" ->
         <<escapeCSV(row.week_end), escapeCSV(row.week_start),
           escapeCSV(row.total_employees), escapeCSV(row.perfect_attendance_count),
           escapeCSV(row.perfect_attendance_rate)>>
    [] type = "weeklyDetails" ->
         <<escapeCSV(Str(row.name)), escapeCSV(Str(row.emp_code)),
           escapeCSV(Num(row.totalDays * 100)), escapeCSV(Num(row.presentDays * 100)),
           escapeCSV(Num(row.leaveDays * 100)), escapeCSV(Num(roundHours(row.totalHours))),
           escapeCSV(Num(row.onTimeDays * 100)), escapeCSV(Num(row.lateDays * 100)),
           escapeCSV(Num(calculateAttendanceRate(row.presentDays, row.totalDays) * 100))>>
    [] OTHER ->
         <<escapeCSV(row.emp_code), escapeCSV(row.date), escapeCSV(row.name),
           escapeCSV(OrEmpty(row.check_in)), escapeCSV(OrEmpty(row.check_out)),
           escapeCSV(OrEmpty(row.work_hours)), escapeCSV(OrEmpty(row.total_punches)),
           escapeCSV(OrEmpty(row.status)), escapeCSV(OrEmpty(row.time_category))>>

\* The cells of the data line of one row, in the order the code lists them
DataCells(type, row) ==
  CASE type = "daily" ->
         <<escapeCSV(row.date), escapeCSV(row.total_employees_present),
           escapeCSV(row.early_count), escapeCSV(row.ontime_count),
           escapeCSV(row.acceptable_count), escapeCSV(row.late_count),
           escapeCSV(row.ontime_rate), escapeCSV(OrEmpty(row.earliest_checkin)),
           escapeCSV(OrEmpty(row.latest_checkin))>>
    [] type = "weekly" ->
         <<escapeCSV(row.week_start), escapeCSV(row.week_end),
           escapeCSV(row.total_employees), escapeCSV(row.perfect_attendance_count),
           escapeCSV(row.perfect_attendance_rate)>>
    [] type = "weeklyDetails" ->
         <<escapeCSV(Str(row.emp_code)), escapeCSV(Str(row.name)),
           escapeCSV(Num(row.totalDays * 100)), escapeCSV(Num(row.presentDays * 100)),
           escapeCSV(Num(row.leaveDays * 100)), escapeCSV(Num(roundHours(row.totalHours))),
           escapeCSV(Num(row.onTimeDays * 100)), escapeCSV(Num(row.lateDays * 100)),
           escapeCSV(Num(calculateAttendanceRate(row.presentDays, row.totalDays) * 100))>>
    [] OTHER ->
         <<escapeCSV(row.date), escapeCSV(row.emp_code), escapeCSV(row.name),
           escapeCSV(OrEmpty(row.check_in)), escapeCSV(OrEmpty(row.check_out)),
           escapeCSV(OrEmpty(row.work_hours)), escapeCSV(OrEmpty(row.total_punches)),
           escapeCSV(OrEmpty(row.status)), escapeCSV(OrEmpty(row.time_category))>>

\* data.forEach(row => { csvContent += [...].join(',') + '\n' })
RECURSIVE DataLines(_, _)
DataLines(type, data) ==
  IF data = <<>> THEN <<>>
  ELSE Join(DataCells(type, Head(data)), <<",">>) \o <<"\n">> \o DataLines(type, Tail(data))

\* csvContent of exportToCSV for a known export type
CsvContent(type, data) ==
  Join([k \in 1..Len(Headers(type)) |-> <<Headers(type)[k]>>], <<",">>) \o <<"\n">>
    \o DataLines(type, data)

\* exportToCSV(config): the file handed to the browser, or an alert when
\* there is nothing to export, the type is unknown or the browser cannot
\* download.
exportToCSV(config) ==
  IF Len(config.data) = 0
  THEN [saved |-> FALSE, alert |-> "No data to export", content |-> <<>>]
  ELSE IF config.type \notin ExportTypes
  THEN [saved |-> FALSE, alert |-> "Failed to export data", content |-> <<>>]
  ELSE IF ~config.canDownload
  THEN [saved |-> FALSE, alert |-> "Failed to export data", content |-> <<>>]
  ELSE [saved |-> TRUE, alert |-> "", content |-> CsvContent(config.type, config.data)]

\* ------------------------------------------------------------------------
\* The hosted store: table daily_employee_records, and its select queries
\* ------------------------------------------------------------------------
VARIABLES table, emp, pending, returned

\* useDataExport: the exporting flag, the export waiting for its timer, and
\* what the latest click on an export button has handed to the browser;
\* shown is the record list the open tab displays next to that button
VARIABLES exporting, exportJob, download, shown

\* useAttendanceData of the Dashboard; the state of the Dashboard and of the
\* tab it shows; the requests sent to the store since the user last acted,
\* and what the user did last
VARIABLES att, ui, sent, lastAction

dashVars == <<att, ui, sent, lastAction>>
hookVars == <<table, emp, pending, returned, att, ui, sent, lastAction>>
exportVars == <<exporting, exportJob, download, shown>>
vars == <<table, emp, pending, returned, exporting, exportJob, download, shown,
          att, ui, sent, lastAction>>

\* One row of daily_employee_records (EmployeeRecord)
Row(code, name, date, hours, status, category) ==
  [id |-> 0, emp_code |-> code, name |-> name, date |-> date, check_in |-> NullV,
   check_out |-> NullV, work_hours |-> hours, total_punches |-> NullV,
   status |-> status, time_category |-> category]

\* ORDER BY emp_code ASC (nulls last), date ASC
ByCodeThenDate(a, b) ==
  IF a.emp_code = b.emp_code THEN a.date <= b.date
  ELSE IF b.emp_code.t = "null" THEN TRUE
  ELSE IF a.emp_code.t = "null" THEN FALSE
  ELSE LocaleLess(JSString(a.emp_code), JSString(b.emp_code))

\* Row a may come before row b under the named ORDER BY clause
RowLessEq(order, a, b) ==
  CASE order = "emp_code,date" -> ByCodeThenDate(a, b)
    [] order = "date desc"     -> a.date >= b.date
    [] order = "date"          -> a.date <= b.date
    [] OTHER                   -> TRUE

\* The results a select may return for the rows at the positions idx of the
\* table under an ORDER BY clause: every arrangement of those rows that
\* respects the order (rows that compare equal come in any order).  A
\* result row remembers the position of its table row in id.
OrderedResults(idx, order) ==
  LET n == Cardinality(idx)
  IN  { [k \in 1..n |-> [table[f[k]] EXCEPT !.id = f[k]]] :
          f \in { g \in [1..n -> idx] :
                    /\ \A a, b \in 1..n : a # b => g[a] # g[b]
                    /\ \A a \in 1..(n - 1) :
                         RowLessEq(order, table[g[a]], table[g[a + 1]]) } }

\* select('*').gte('date', weekStart).lte('date', weekEnd)
\*            .order('emp_code').order('date')
QueryWeek(weekStart, weekEnd) ==
  OrderedResults({i \in 1..Len(table) : /\ table[i].date >= weekStart
                                        /\ table[i].date <= weekEnd},
                 "emp_code,date")

\* Errors a query may come back with (an object with a message, the message
\* possibly empty)
ErrObj(msg) == [t |-> "err", s |-> msg, n |-> 0]
ErrorValues == {ErrObj(<<"boom">>), ErrObj(<<>>)}

Ok(data) == [ok |-> TRUE, data |-> data, error |-> NullV]
Failed(err) == [ok |-> FALSE, data |-> <<>>, error |-> err]

\* ------------------------------------------------------------------------
\* lib/supabase.ts
\* ------------------------------------------------------------------------
\* handleSupabaseError(error, context): `${context}: ${message}`
handleSupabaseError(error, context) ==
  IF error.t = "err" /\ error.s # <<>> THEN <<context, ": ">> \o error.s
  ELSE IF error.t = "str" THEN <<context, ": ">> \o error.s
  ELSE <<context, ": ", "Unknown error occurred">>

\* ------------------------------------------------------------------------
\* hooks/useEmployeeData.ts
\* ------------------------------------------------------------------------
\* The instances of the hook: the Dashboard's, and the private ones of
\* WeeklyReportsTab and MonthlyReportsTab.
EmpHooks == {"dashboard", "weeklyTab", "monthlyTab"}

\* useState initial values
EmpHookInit == [employees |-> <<>>, employeeRecords |-> <<>>,
                loading |-> FALSE, error |-> <<>>]

NoArgs == [date |-> 0, weekStart |-> 0, weekEnd |-> 0, empCode |-> <<>>, month |-> <<>>]

\* Who awaits a call: the handler to resume, the user action it runs for,
\* and what the handler keeps across the await (a date, 0 for none).
Caller(handler, trigger, carry) == [handler |-> handler, trigger |-> trigger, carry |-> carry]

NoTrigger == [kind |-> "none", arg |-> <<>>]

\* A caller outside the Dashboard, which only looks at the result
Direct == Caller("direct", NoTrigger, 0)

\* A call in flight: the hook instance, the operation, its arguments, the
\* caller to resume, and the locals that live across an await.  orphan
\* says that the component owning the hook instance has unmounted;
\* awaiting is the number of requests the call waits for at its await, and
\* failures the number of its queries that have come back with an error.
Call(h, op, args, caller) ==
  [hook |-> h, op |-> op, args |-> args, caller |-> caller,
   allRecords |-> <<>>, rangeStart |-> 0, tableChanged |-> FALSE, orphan |-> FALSE,
   awaiting |-> 1, failures |-> 0]

\* What the operation left behind when it completed: error and loading of
\* its hook instance, and the banner the Dashboard renders
NoAfter == [error |-> <<>>, loading |-> FALSE, banner |-> <<>>]

\* What a call handed back to its caller: { data, error }, with the query
\* response it was computed from, whether the query (or the input) failed,
\* and whether the table was written to by the sync while the call was in
\* flight.
Returned(call, failed, response, data, dataNull, error) ==
  [op |-> call.op, hook |-> call.hook, args |-> call.args, response |-> response,
   tableChanged |-> call.tableChanged, failed |-> failed,
   handler |-> call.caller.handler,
   data |-> data, dataNull |-> dataNull, error |-> error, after |-> NoAfter,
   queryErrors |-> <<>>]

NotReturned == [op |-> "none", hook |-> "none", args |-> NoArgs, response |-> <<>>,
                tableChanged |-> FALSE, failed |-> FALSE, handler |-> "none",
                data |-> <<>>, dataNull |-> TRUE, error |-> <<>>, after |-> NoAfter,
                queryErrors |-> <<>>]

\* useState initial values of useAttendanceData
AttInit == [dailyData |-> <<>>, weeklyData |-> <<>>, loading |-> FALSE, error |-> <<>>]

\* getCurrentMonth(), as year and month
CurrentMonth == <<"2025", "01">>

\* useState initial values of WeeklyReportsTab, MonthlyReportsTab, Dashboard
WeeklyTabInit == [viewMode |-> "summary", selectedWeek |-> <<>>,
                  weeklyEmployeeData |-> <<>>, employeeLoading |-> FALSE]

MonthlyTabInit == [selectedEmployee |-> <<>>, selectedMonth |-> CurrentMonth,
                   employeeMonthlyData |-> <<>>, monthlyLoading |-> FALSE]

UiInit == [mounted |-> FALSE, activeTab |-> "summary", selectedDate |-> 0,
           weekly |-> WeeklyTabInit, monthly |-> MonthlyTabInit]

NoAction == [kind |-> "none", arg |-> <<>>, failed |-> FALSE, retry |-> FALSE]

DashboardIdle ==
  /\ att = AttInit
  /\ ui = UiInit
  /\ sent = <<>>
  /\ lastAction = NoAction

\* The state the handlers and hooks work on, and its write-back
World == [emp |-> emp, att |-> att, pending |-> pending, ui |-> ui, sent |-> sent]

Assign(w) ==
  /\ emp' = w.emp
  /\ att' = w.att
  /\ pending' = w.pending
  /\ ui' = w.ui
  /\ sent' = w.sent

\* A request goes out to the store
Request(call, query) ==
  [trigger |-> call.caller.trigger, query |-> query, args |-> call.args]

Send(w, call, query) ==
  [w EXCEPT !.pending = Append(@, call), !.sent = Append(@, Request(call, query))]

\* The request of the next page of loadEmployees
PageRequest(call) == Request(call, "employee page")

\* setLoading(true); clearError() of a useEmployeeData instance
EmpLoadStarts(w, h) == [w EXCEPT !.emp[h].loading = TRUE, !.emp[h].error = <<>>]

RemoveAt(seq, k) == SubSeq(seq, 1, k - 1) \o SubSeq(seq, k + 1, Len(seq))

\* loadWeeklyEmployeeData up to its await: setLoading(true); clearError();
\* the query is sent.
loadWeeklyEmployeeData(w, h, weekStart, weekEnd, caller) ==
  Send(EmpLoadStarts(w, h),
       Call(h, "loadWeeklyEmployeeData",
            [NoArgs EXCEPT !.weekStart = weekStart, !.weekEnd = weekEnd], caller),
       "weekly employee records")

\* The state of the hook and the value returned once the query of
\* loadWeeklyEmployeeData came back.
WeeklyOutcome(call, resp) ==
  IF resp.ok
  THEN [hookState |-> [emp[call.hook] EXCEPT !.loading = FALSE],
        ret |-> Returned(call, FALSE, resp.data, ProcessWeekly(resp.data), FALSE, <<>>)]
  ELSE LET errorMsg == handleSupabaseError(resp.error, "Weekly Employee Data Loading")
       IN  [hookState |-> [emp[call.hook] EXCEPT !.error = errorMsg, !.loading = FALSE],
            ret |-> Returned(call, TRUE, <<>>, <<>>, FALSE, errorMsg)]

\* select('emp_code, name, date').range(rangeStart, rangeStart + rangeSize - 1)
\*   .order('date', { ascending: false })
QueryEmployeesPage(rangeStart) ==
  { SubSeq(all, rangeStart + 1,
           IF rangeStart + rangeSize < Len(all) THEN rangeStart + rangeSize ELSE Len(all)) :
      all \in OrderedResults(1..Len(table), "date desc") }

\* loadEmployees up to its first await: setLoading(true); clearError(); the
\* first page is requested.
loadEmployees(w, h, caller) ==
  Send(EmpLoadStarts(w, h), Call(h, "loadEmployees", NoArgs, caller), "employee page")

\* DedupStep taking the name of the last row of a code instead of the first
DedupStep_LastWins(map, row) ==
  LET empCodeStr == NormStr(row.emp_code)
      nameStr == NormStr(row.name)
      entry == [emp_code |-> empCodeStr, name |-> nameStr, is_active |-> TRUE]
  IN  IF empCodeStr # <<>> /\ nameStr # <<>>
      THEN IF MapIndex(map, empCodeStr) = 0 THEN Append(map, entry)
           ELSE [map EXCEPT ![MapIndex(map, empCodeStr)] = entry]
      ELSE map

\* DedupStep keyed by the code as written, without String(...).trim()
DedupStep_RawKey(map, row) ==
  LET empCodeStr == JSString(OrEmpty(row.emp_code))
      nameStr == NormStr(row.name)
  IN  IF empCodeStr # <<>> /\ nameStr # <<>> /\ MapIndex(map, empCodeStr) = 0
      THEN Append(map, [emp_code |-> empCodeStr, name |-> nameStr, is_active |-> TRUE])
      ELSE map

\* One iteration of allRecords.forEach(emp => ...): the first row of a code
\* that has both a code and a name enters uniqueEmployeesMap.
DedupStep(map, row) ==
  LET empCodeStr == NormStr(row.emp_code)
      nameStr == NormStr(row.name)
  IN  IF empCodeStr # <<>> /\ nameStr # <<>> /\ MapIndex(map, empCodeStr) = 0
      THEN Append(map, [emp_code |-> empCodeStr, name |-> nameStr, is_active |-> TRUE])
      ELSE map

RECURSIVE UniqueEmployeesMap(_)
UniqueEmployeesMap(allRecords) ==
  IF allRecords = <<>> THEN <<>>
  ELSE DedupStep(UniqueEmployeesMap(SubSeq(allRecords, 1, Len(allRecords) - 1)),
                 allRecords[Len(allRecords)])

\* uniqueEmployees of loadEmployees
UniqueEmployees(allRecords) == SortByName(UniqueEmployeesMap(allRecords))

\* EmployeesPageOutcome asking once more for a page that failed
EmployeesPageOutcome_Retry(call, resp) ==
  IF ~resp.ok /\ call.failures < 2
  THEN [done |-> FALSE, call |-> call, hookState |-> emp[call.hook], ret |-> NotReturned]
  ELSE IF ~resp.ok
  THEN LET errorMsg == handleSupabaseError(resp.error, "Employee Loading")
       IN  [done |-> TRUE, call |-> call,
            hookState |-> [emp[call.hook] EXCEPT !.error = errorMsg, !.employees = <<>>,
                                                 !.loading = FALSE],
            ret |-> Returned(call, TRUE, call.allRecords, <<>>, TRUE, errorMsg)]
  ELSE LET batch == resp.data
           allRecords == call.allRecords \o batch
           hasMore == Len(batch) > 0 /\ ~(Len(batch) < rangeSize)
           next == [call EXCEPT !.allRecords = allRecords,
                                !.rangeStart = IF Len(batch) > 0 THEN @ + rangeSize ELSE @]
       IN  IF hasMore
           THEN [done |-> FALSE, call |-> next, hookState |-> emp[call.hook],
                 ret |-> NotReturned]
           ELSE [done |-> TRUE, call |-> next,
                 hookState |-> [emp[call.hook] EXCEPT
                                  !.employees = UniqueEmployees(allRecords),
                                  !.loading = FALSE],
                 ret |-> Returned(next, FALSE, allRecords, UniqueEmployees(allRecords),
                                  FALSE, <<>>)]

\* EmployeesPageOutcome going on after a page shorter than rangeSize
EmployeesPageOutcome_NoShortStop(call, resp) ==
  IF ~resp.ok
  THEN LET errorMsg == handleSupabaseError(resp.error, "Employee Loading")
       IN  [done |-> TRUE, call |-> call,
            hookState |-> [emp[call.hook] EXCEPT !.error = errorMsg, !.employees = <<>>,
                                                 !.loading = FALSE],
            ret |-> Returned(call, TRUE, call.allRecords, <<>>, TRUE, errorMsg)]
  ELSE LET batch == resp.data
           allRecords == call.allRecords \o batch
           hasMore == Len(batch) > 0
           next == [call EXCEPT !.allRecords = allRecords,
                                !.rangeStart = IF Len(batch) > 0 THEN @ + rangeSize ELSE @]
       IN  IF hasMore
           THEN [done |-> FALSE, call |-> next, hookState |-> emp[call.hook],
                 ret |-> NotReturned]
           ELSE [done |-> TRUE, call |-> next,
                 hookState |-> [emp[call.hook] EXCEPT
                                  !.employees = UniqueEmployees(allRecords),
                                  !.loading = FALSE],
                 ret |-> Returned(next, FALSE, allRecords, UniqueEmployees(allRecords),
                                  FALSE, <<>>)]

\* What loadEmployees does when a page request came back: it fails, asks for
\* the next page (done is FALSE and call holds the updated locals), or
\* de-duplicates what it has loaded and returns.
EmployeesPageOutcome(call, resp) ==
  IF ~resp.ok
  THEN LET errorMsg == handleSupabaseError(resp.error, "Employee Loading")
       IN  [done |-> TRUE, call |-> call,
            hookState |-> [emp[call.hook] EXCEPT !.error = errorMsg, !.employees = <<>>,
                                                 !.loading = FALSE],
            ret |-> Returned(call, TRUE, call.allRecords, <<>>, TRUE, errorMsg)]
  ELSE LET batch == resp.data
           allRecords == call.allRecords \o batch
           hasMore == Len(batch) > 0 /\ ~(Len(batch) < rangeSize)
           next == [call EXCEPT !.allRecords = allRecords,
                                !.rangeStart = IF Len(batch) > 0 THEN @ + rangeSize ELSE @]
       IN  IF hasMore
           THEN [done |-> FALSE, call |-> next, hookState |-> emp[call.hook],
                 ret |-> NotReturned]
           ELSE [done |-> TRUE, call |-> next,
                 hookState |-> [emp[call.hook] EXCEPT
                                  !.employees = UniqueEmployees(allRecords),
                                  !.loading = FALSE],
                 ret |-> Returned(next, FALSE, allRecords, UniqueEmployees(allRecords),
                                  FALSE, <<>>)]

\* The sync job, which runs elsewhere, inserts a batch of rows; calls in
\* flight note that the table changed under them.
SyncInsert(rows) ==
  /\ table' = table \o rows
  /\ pending' = [k \in 1..Len(pending) |-> [pending[k] EXCEPT !.tableChanged = TRUE]]

\* select(...).eq('date', date).order('check_in')
QueryByDate(date) ==
  OrderedResults({i \in 1..Len(table) : table[i].date = date}, "check_in")

\* data.map(record => ({...record, emp_code: String(record.emp_code || '').trim(),
\*                      name: String(record.name || '').trim()}))
NormalizeRecords(data) ==
  [k \in 1..Len(data) |->
     [data[k] EXCEPT !.emp_code = Str(NormStr(@)), !.name = Str(NormStr(@))]]

\* loadEmployeeData up to its await
loadEmployeeData(w, h, date, caller) ==
  Send(EmpLoadStarts(w, h),
       Call(h, "loadEmployeeData", [NoArgs EXCEPT !.date = date], caller),
       "employee records of a date")

\* RecordsOutcome keeping the records of the previous load when the query
\* fails
RecordsOutcome_KeepsRecords(call, resp, context) ==
  IF resp.ok
  THEN [hookState |-> [emp[call.hook] EXCEPT !.employeeRecords = NormalizeRecords(resp.data),
                                             !.loading = FALSE],
        ret |-> Returned(call, FALSE, resp.data, NormalizeRecords(resp.data), FALSE, <<>>)]
  ELSE LET errorMsg == handleSupabaseError(resp.error, context)
       IN  [hookState |-> [emp[call.hook] EXCEPT !.error = errorMsg, !.loading = FALSE],
            ret |-> Returned(call, TRUE, <<>>, <<>>, TRUE, errorMsg)]

\* What loadEmployeeData and loadEmployeeMonthlyData do with the response,
\* each under its own context label
RecordsOutcome(call, resp, context) ==
  IF resp.ok
  THEN [hookState |-> [emp[call.hook] EXCEPT !.employeeRecords = NormalizeRecords(resp.data),
                                             !.loading = FALSE],
        ret |-> Returned(call, FALSE, resp.data, NormalizeRecords(resp.data), FALSE, <<>>)]
  ELSE LET errorMsg == handleSupabaseError(resp.error, context)
       IN  [hookState |-> [emp[call.hook] EXCEPT !.error = errorMsg,
                                                 !.employeeRecords = <<>>,
                                                 !.loading = FALSE],
            ret |-> Returned(call, TRUE, <<>>, <<>>, TRUE, errorMsg)]

\* lib/formatters.ts: parseInt of a part of a month string, -1 for NaN
ParseIntPart(part) ==
  CASE part = "2025" -> 2025
    [] part = "01" -> 1
    [] part = "02" -> 2
    [] part = "13" -> 13
    [] OTHER -> -1

\* The days of a month; the calendar of the model has two days a month
MonthDays(monthNum) ==
  CASE monthNum = 1 -> [startDate |-> 1, endDate |-> 2]
    [] monthNum = 2 -> [startDate |-> 3, endDate |-> 4]
    [] OTHER -> [startDate |-> 5, endDate |-> 4]

\* getMonthDateRange(monthString), the month string split at '-'
getMonthDateRange(month) ==
  LET yearNum == IF Len(month) >= 1 THEN ParseIntPart(month[1]) ELSE -1
      monthNum == IF Len(month) >= 2 THEN ParseIntPart(month[2]) ELSE -1
  IN  IF yearNum = -1 \/ monthNum = -1 \/ monthNum < 1 \/ monthNum > 12
      THEN [thrown |-> TRUE, startDate |-> 0, endDate |-> 0]
      ELSE [thrown |-> FALSE, startDate |-> MonthDays(monthNum).startDate,
            endDate |-> MonthDays(monthNum).endDate]

\* select('*').or(emp_code.eq...).gte('date', startDate).lte('date', endDate)
\*   .order('date'): the rows whose code reads as empCodeStr
QueryMonthly(empCodeStr, startDate, endDate) ==
  OrderedResults({i \in 1..Len(table) :
                    /\ table[i].emp_code.t # "null"
                    /\ JSString(table[i].emp_code) = empCodeStr
                    /\ table[i].date >= startDate
                    /\ table[i].date <= endDate},
                 "date")

MonthlyCall(h, empCode, month, caller) ==
  Call(h, "loadEmployeeMonthlyData",
       [NoArgs EXCEPT !.empCode = Trim(empCode), !.month = month], caller)

\* What loadEmployeeMonthlyData returns when getMonthDateRange throws
MonthlyThrown(h, empCode, month, caller) ==
  Returned(MonthlyCall(h, empCode, month, caller), TRUE, <<>>, <<>>, TRUE,
           handleSupabaseError(ErrObj(<<"Invalid month format">>),
                               "Monthly Employee Data Loading"))

\* loadEmployeeMonthlyData up to its await, or to its end when the month is
\* malformed: the catch block then runs before anything was requested.
loadEmployeeMonthlyData(w, h, empCode, month, caller) ==
  IF getMonthDateRange(month).thrown
  THEN [EmpLoadStarts(w, h) EXCEPT
          !.emp[h].error = MonthlyThrown(h, empCode, month, caller).error,
          !.emp[h].employeeRecords = <<>>,
          !.emp[h].loading = FALSE]
  ELSE Send(EmpLoadStarts(w, h), MonthlyCall(h, empCode, month, caller),
            "employee records of a month")

\* ------------------------------------------------------------------------
\* lib/utils.ts: handleAsyncOperation; hooks/useAttendanceData.ts
\* ------------------------------------------------------------------------
\* error.toString() of an error object without a message
ErrToString(error) == <<"[object Object]">>

\* handleAsyncOperation(operation): { data, error: null } or
\* { data: null, error: error?.message || error?.toString() || errorMessage }
handleAsyncOperation(resp, errorMessage) ==
  IF resp.ok THEN [data |-> resp.data, dataNull |-> FALSE, error |-> NullV]
  ELSE LET text == IF resp.error.s # <<>> THEN resp.error.s
                   ELSE IF ErrToString(resp.error) # <<>> THEN ErrToString(resp.error)
                   ELSE <<errorMessage>>
       IN  [data |-> <<>>, dataNull |-> TRUE, error |-> Str(text)]

\* The tables daily_summaries and weekly_summaries, newest first
DaySummary(date) == [date |-> date, total_employees_present |-> Num(200)]
WeekSummary(weekStart, weekEnd) ==
  [week_start |-> weekStart, week_end |-> weekEnd, total_employees |-> Num(200)]

DailySummaries == <<DaySummary(3), DaySummary(1)>>
WeeklySummaries == <<WeekSummary(3, 4), WeekSummary(1, 2)>>

\* setLoading(true); clearError() of useAttendanceData
AttLoadStarts(w) == [w EXCEPT !.att.loading = TRUE, !.att.error = <<>>]

AttCall(op, caller) == Call("attendance", op, NoArgs, caller)

\* loadDailyData, loadWeeklyData and refreshData up to their await
loadDailyData(w, caller) ==
  Send(AttLoadStarts(w), AttCall("loadDailyData", caller), "daily summaries")

loadWeeklyData(w, caller) ==
  Send(AttLoadStarts(w), AttCall("loadWeeklyData", caller), "weekly summaries")

\* refreshData awaits Promise.all of the two queries
refreshData(w, caller) ==
  LET call == [AttCall("refreshData", caller) EXCEPT !.awaiting = 2]
      w1 == Send(AttLoadStarts(w), call, "daily summaries")
  IN  [w1 EXCEPT !.sent = Append(@, Request(call, "weekly summaries"))]

ErrorText(error) == IF error.t = "null" THEN <<>> ELSE error.s

\* loadDailyData after its await
DailyOutcome(call, resp) ==
  LET r == handleAsyncOperation(resp, "Failed to load daily summaries")
  IN  [hookState |->
         IF ~Falsy(r.error)
         THEN [att EXCEPT !.error = handleSupabaseError(r.error, "Daily Data Loading"),
                          !.dailyData = <<>>, !.loading = FALSE]
         ELSE [att EXCEPT !.dailyData = r.data, !.loading = FALSE],
       ret |-> Returned(call, ~resp.ok, <<>>, r.data, r.dataNull, ErrorText(r.error))]

\* loadWeeklyData after its await
WeeklyDataOutcome(call, resp) ==
  LET r == handleAsyncOperation(resp, "Failed to load weekly summaries")
  IN  [hookState |->
         IF ~Falsy(r.error)
         THEN [att EXCEPT !.error = handleSupabaseError(r.error, "Weekly Data Loading"),
                          !.weeklyData = <<>>, !.loading = FALSE]
         ELSE [att EXCEPT !.weeklyData = r.data, !.loading = FALSE],
       ret |-> Returned(call, ~resp.ok, <<>>, r.data, r.dataNull, ErrorText(r.error))]

\* refreshData after Promise.all: the daily result is handled, then the
\* weekly one, whose message is appended to the error as it then stands.
RefreshOutcome(call, resp) ==
  LET dailyResult == handleAsyncOperation(resp.daily, "Failed to load daily summaries")
      weeklyResult == handleAsyncOperation(resp.weekly, "Failed to load weekly summaries")
      afterDaily ==
        IF ~Falsy(dailyResult.error)
        THEN [att EXCEPT !.error = handleSupabaseError(dailyResult.error,
                                                       "Daily Data Loading"),
                         !.dailyData = <<>>]
        ELSE [att EXCEPT !.dailyData = dailyResult.data]
      afterWeekly ==
        IF ~Falsy(weeklyResult.error)
        THEN [afterDaily EXCEPT
                !.error = @ \o <<"; ">>
                            \o handleSupabaseError(weeklyResult.error, "Weekly Data Loading"),
                !.weeklyData = <<>>]
        ELSE [afterDaily EXCEPT !.weeklyData = weeklyResult.data]
  IN  [hookState |-> [afterWeekly EXCEPT !.loading = FALSE],
       ret |-> Returned(call, ~resp.daily.ok \/ ~resp.weekly.ok, <<>>,
                        dailyResult.data, dailyResult.dataNull,
                        IF ~Falsy(dailyResult.error) THEN ErrorText(dailyResult.error)
                        ELSE ErrorText(weeklyResult.error))]

\* ------------------------------------------------------------------------
\* A call in flight completes
\* ------------------------------------------------------------------------
QueryFailures == { Failed(err) : err \in ErrorValues }

\* The responses the store may give to the request of a call in flight
Responses(call) ==
  CASE call.op = "loadEmployees" ->
         { Ok(batch) : batch \in QueryEmployeesPage(call.rangeStart) } \cup QueryFailures
    [] call.op = "loadWeeklyEmployeeData" ->
         { Ok(data) : data \in QueryWeek(call.args.weekStart, call.args.weekEnd) }
           \cup QueryFailures
    [] call.op = "loadEmployeeData" ->
         { Ok(data) : data \in QueryByDate(call.args.date) } \cup QueryFailures
    [] call.op = "loadEmployeeMonthlyData" ->
         { Ok(data) : data \in QueryMonthly(call.args.empCode,
                                            getMonthDateRange(call.args.month).startDate,
                                            getMonthDateRange(call.args.month).endDate) }
           \cup QueryFailures
    [] call.op = "loadDailyData" -> {Ok(DailySummaries)} \cup QueryFailures
    [] call.op = "loadWeeklyData" -> {Ok(WeeklySummaries)} \cup QueryFailures
    [] OTHER ->
         { [daily |-> d, weekly |-> k] :
             d \in {Ok(DailySummaries)} \cup QueryFailures,
             k \in {Ok(WeeklySummaries)} \cup QueryFailures }

\* What the operation of a call does with the response
Outcome(call, resp) ==
  LET whole(out) == [done |-> TRUE, call |-> call, hookState |-> out.hookState,
                     ret |-> out.ret]
  IN  CASE call.op = "loadEmployees" -> EmployeesPageOutcome(call, resp)
        [] call.op = "loadWeeklyEmployeeData" -> whole(WeeklyOutcome(call, resp))
        [] call.op = "loadEmployeeData" ->
             whole(RecordsOutcome(call, resp, "Employee Records Loading"))
        [] call.op = "loadEmployeeMonthlyData" ->
             whole(RecordsOutcome(call, resp, "Monthly Employee Data Loading"))
        [] call.op = "loadDailyData" -> whole(DailyOutcome(call, resp))
        [] call.op = "loadWeeklyData" -> whole(WeeklyDataOutcome(call, resp))
        [] OTHER -> whole(RefreshOutcome(call, resp))

\* ------------------------------------------------------------------------
\* app/page.tsx (Dashboard) and the tabs
\* ------------------------------------------------------------------------
\* loading && !dailyData.length: the Dashboard shows its spinner instead of
\* the tabs
Spinner(w) ==
  (w.att.loading \/ w.emp["dashboard"].loading) /\ Len(w.att.dailyData) = 0

\* The tab component is mounted
Shown(w, tab) == ~Spinner(w) /\ w.ui.activeTab = tab

\* {error && <banner>{error}</banner>}, error = attendanceError || employeeError
Banner(w) ==
  IF Spinner(w) THEN <<>>
  ELSE IF w.att.error # <<>> THEN w.att.error
  ELSE w.emp["dashboard"].error

\* handleDateChange(date) of the Dashboard
handleDateChange(w, date, trigger) ==
  IF date = w.ui.selectedDate THEN w
  ELSE loadEmployeeData([w EXCEPT !.ui.selectedDate = date], "dashboard", date,
                        Caller("handleDateChange", trigger, 0))

\* handleRefresh() up to its first await; selectedDate stays as it was when
\* the button was pressed
handleRefresh(w, trigger) ==
  refreshData(w, Caller("handleRefresh.refreshData", trigger, w.ui.selectedDate))

\* initializeData() up to its first await
initializeData(w, trigger) ==
  refreshData(w, Caller("initializeData.refreshData", trigger, 0))

\* handleWeeklySelect(weekKey) of WeeklyReportsTab up to its await; a week
\* key is <<week_start, week_end>>
handleWeeklySelect(w, weekKey, trigger) ==
  IF weekKey = w.ui.weekly.selectedWeek THEN w
  ELSE LET w1 == [w EXCEPT !.ui.weekly.selectedWeek = weekKey,
                           !.ui.weekly.employeeLoading = TRUE]
       IN  IF Len(weekKey) = 2
           THEN loadWeeklyEmployeeData(w1, "weeklyTab", weekKey[1], weekKey[2],
                                       Caller("handleWeeklySelect", trigger, 0))
           ELSE [w1 EXCEPT !.ui.weekly.employeeLoading = FALSE]

\* The part of handleEmployeeSelect and handleMonthChange after their await
AfterMonthly(w, ret) ==
  [w EXCEPT !.ui.monthly.employeeMonthlyData = IF ret.dataNull THEN @ ELSE ret.data,
            !.ui.monthly.monthlyLoading = FALSE]

\* The load both handlers of MonthlyReportsTab start
MonthlyLoad(w, empCode, month, handler, trigger) ==
  LET caller == Caller(handler, trigger, 0)
      w1 == loadEmployeeMonthlyData([w EXCEPT !.ui.monthly.monthlyLoading = TRUE],
                                    "monthlyTab", empCode, month, caller)
  IN  IF getMonthDateRange(month).thrown
      THEN AfterMonthly(w1, MonthlyThrown("monthlyTab", empCode, month, caller))
      ELSE w1

\* handleEmployeeSelect(empCode)
handleEmployeeSelect(w, empCode, trigger) ==
  IF empCode = w.ui.monthly.selectedEmployee THEN w
  ELSE LET w1 == [w EXCEPT !.ui.monthly.selectedEmployee = empCode,
                           !.ui.monthly.employeeMonthlyData = <<>>]
       IN  IF empCode # <<>> /\ w.ui.monthly.selectedMonth # <<>>
           THEN MonthlyLoad(w1, empCode, w.ui.monthly.selectedMonth,
                            "handleEmployeeSelect", trigger)
           ELSE w1

\* handleMonthChange(month)
handleMonthChange(w, month, trigger) ==
  IF month = w.ui.monthly.selectedMonth THEN w
  ELSE LET w1 == [w EXCEPT !.ui.monthly.selectedMonth = month,
                           !.ui.monthly.employeeMonthlyData = <<>>]
       IN  IF w.ui.monthly.selectedEmployee # <<>> /\ month # <<>>
           THEN MonthlyLoad(w1, w.ui.monthly.selectedEmployee, month,
                            "handleMonthChange", trigger)
           ELSE w1

\* The handler that awaited a call goes on with what the call returned
Continue(w, call, ret) ==
  LET handler == call.caller.handler
      trigger == call.caller.trigger
      carry == call.caller.carry
  IN  CASE handler = "initializeData.refreshData" ->
             loadEmployees(w, "dashboard",
                           Caller("initializeData.loadEmployees", trigger,
                                  IF ~ret.dataNull /\ Len(ret.data) > 0
                                  THEN ret.data[1].date ELSE 0))
        [] handler = "initializeData.loadEmployees" ->
             IF carry # 0
             THEN loadEmployeeData([w EXCEPT !.ui.selectedDate = carry], "dashboard", carry,
                                   Caller("initializeData.loadEmployeeData", trigger, 0))
             ELSE w
        [] handler = "handleRefresh.refreshData" ->
             loadEmployees(w, "dashboard",
                           Caller("handleRefresh.loadEmployees", trigger, carry))
        [] handler = "handleRefresh.loadEmployees" ->
             IF carry # 0
             THEN loadEmployeeData(w, "dashboard", carry,
                                   Caller("handleRefresh.loadEmployeeData", trigger, 0))
             ELSE w
        [] handler = "handleWeeklySelect" /\ ~call.orphan ->
             [w EXCEPT !.ui.weekly.weeklyEmployeeData = IF ret.dataNull THEN @ ELSE ret.data,
                       !.ui.weekly.employeeLoading = FALSE]
        [] handler \in {"handleEmployeeSelect", "handleMonthChange"} /\ ~call.orphan ->
             AfterMonthly(w, ret)
        [] OTHER -> w

\* A tab that is not shown is unmounted: its state and its hook instance
\* are gone, and what its calls in flight will set is lost.
Orphaned(calls, h) ==
  [k \in 1..Len(calls) |->
     IF calls[k].hook = h THEN [calls[k] EXCEPT !.orphan = TRUE] ELSE calls[k]]

Unmount(w) ==
  LET w1 == IF Shown(w, "weekly") THEN w
            ELSE [w EXCEPT !.ui.weekly = WeeklyTabInit,
                           !.emp["weeklyTab"] = EmpHookInit,
                           !.pending = Orphaned(@, "weeklyTab")]
  IN  IF Shown(w1, "monthly") THEN w1
      ELSE [w1 EXCEPT !.ui.monthly = MonthlyTabInit,
                      !.emp["monthlyTab"] = EmpHookInit,
                      !.pending = Orphaned(@, "monthlyTab")]

WeekKey(week) == <<week.week_start, week.week_end>>

\* The two effects of WeeklyReportsTab: the first week becomes the selected
\* one, and the details view asks handleWeeklySelect for the selected week
WeeklyEffects(w) ==
  IF ~Shown(w, "weekly") THEN w
  ELSE LET w1 == IF Len(w.att.weeklyData) > 0 /\ w.ui.weekly.selectedWeek = <<>>
                 THEN [w EXCEPT !.ui.weekly.selectedWeek = WeekKey(w.att.weeklyData[1])]
                 ELSE w
       IN  IF /\ w1.ui.weekly.viewMode = "details"
              /\ w1.ui.weekly.selectedWeek # <<>>
              /\ Len(w1.ui.weekly.weeklyEmployeeData) = 0
           THEN handleWeeklySelect(w1, w1.ui.weekly.selectedWeek, NoTrigger)
           ELSE w1

\* What React does after the state changed: components unmount, effects run
Render(w) == WeeklyEffects(Unmount(w))

\* The state of a hook instance
HookState(w, h) == IF h = "attendance" THEN w.att ELSE w.emp[h]

WithAfter(ret, w) ==
  [ret EXCEPT !.after = [error |-> HookState(w, ret.hook).error,
                         loading |-> HookState(w, ret.hook).loading,
                         banner |-> Banner(w)]]

\* The queries of a response that came back with an error
FailedQueries(resp) ==
  IF "ok" \in DOMAIN resp THEN (IF resp.ok THEN 0 ELSE 1)
  ELSE (IF resp.daily.ok THEN 0 ELSE 1) + (IF resp.weekly.ok THEN 0 ELSE 1)

\* The error of each query of a response, in the order the queries are
\* written in the operation (null for a query that succeeded)
QueryErrors(resp) ==
  IF "ok" \in DOMAIN resp THEN <<resp.error>>
  ELSE <<resp.daily.error, resp.weekly.error>>

\* StoreAfter for a request that inserts a row
StoreAfter_Insert(call) ==
  IF Len(table) < 3 THEN Append(table, table[1]) ELSE table

\* The table after the store has served the request of a call: every query
\* of commonQueries and of the hooks is a select, which leaves it as it is
StoreAfter(call) == table

\* The response to the call at position k of pending arrives: the operation
\* finishes (or asks for its next page), the awaiting handler goes on, and
\* React renders.
Arrives(k, resp) ==
  LET call == [pending[k] EXCEPT !.failures = @ + FailedQueries(resp)]
      out == Outcome(call, resp)
      w1 == IF call.orphan THEN World
            ELSE IF call.hook = "attendance" THEN [World EXCEPT !.att = out.hookState]
            ELSE [World EXCEPT !.emp[call.hook] = out.hookState]
      w2 == IF out.done
            THEN Continue([w1 EXCEPT !.pending = RemoveAt(@, k)], call, out.ret)
            ELSE [w1 EXCEPT !.pending[k] = out.call,
                            !.sent = Append(@, PageRequest(out.call))]
      w3 == Render(w2)
      failedNow == /\ out.done
                   /\ out.ret.failed
                   /\ lastAction.kind # "none"
                   /\ call.caller.trigger.kind = lastAction.kind
                   /\ call.caller.trigger.arg = lastAction.arg
  IN  /\ Assign(w3)
      /\ returned' = IF out.done
                     THEN WithAfter([out.ret EXCEPT !.response = <<>>, !.data = <<>>,
                                                   !.queryErrors = QueryErrors(resp)], w3)
                     ELSE returned
      /\ lastAction' = IF failedNow THEN [lastAction EXCEPT !.failed = TRUE]
                       ELSE lastAction
      /\ table' = StoreAfter(call)
      /\ UNCHANGED exportVars

\* ------------------------------------------------------------------------
\* hooks/useDataExport.ts
\* ------------------------------------------------------------------------
NoJob == [type |-> "none", data |-> <<>>]
NoDownload == [type |-> "none", data |-> <<>>, saved |-> FALSE, alert |-> "",
               content |-> <<>>]

ExportIdle ==
  /\ exporting = FALSE
  /\ exportJob = NoJob
  /\ download = NoDownload

NothingShown ==
  shown = NoJob

\* exportData(type, data) up to its await: nothing to export is reported at
\* once, otherwise exporting is set and the timer started.
exportData(type, data) ==
  /\ ~exporting
  /\ IF Len(data) = 0
     THEN /\ download' = [type |-> type, data |-> data, saved |-> FALSE,
                          alert |-> "No data to export", content |-> <<>>]
          /\ UNCHANGED <<exporting, exportJob>>
     ELSE /\ exporting' = TRUE
          /\ exportJob' = [type |-> type, data |-> data]
          /\ download' = NoDownload

\* exportData after the timer: exportToCSV runs and exporting is reset.
exportDataResume(canDownload) ==
  /\ exporting
  /\ LET out == exportToCSV([type |-> exportJob.type, data |-> exportJob.data,
                             canDownload |-> canDownload])
     IN  download' = [type |-> exportJob.type, data |-> exportJob.data,
                      saved |-> out.saved, alert |-> out.alert, content |-> out.content]
  /\ exporting' = FALSE
  /\ exportJob' = NoJob

\* ------------------------------------------------------------------------
\* Weekly aggregation exercised on its own: a caller invokes
\* loadWeeklyEmployeeData of one hook instance, one call at a time, against
\* a table of daily records.
\* ------------------------------------------------------------------------
WeekCodes == <<NullV, Str(<<"7">>), Str(<<" ", "7">>), Num(800)>>
WeekDates == {1, 2}
\* status and work_hours of a row
WeekAttendance == <<[status |-> Str(<<"Present">>), hours |-> Num(800)],
                    [status |-> Str(<<"Present">>), hours |-> Num(425)],
                    [status |-> Str(<<"Present">>), hours |-> NullV],
                    [status |-> Str(<<"Absent">>), hours |-> Num(800)]>>

\* The name and the time category a row of the weekly tables carries follow
\* from its other columns, so that equal codes come with different names.
WeekNameOf(code, hours) ==
  IF code.t = "num" THEN Str(<<"A">>)
  ELSE IF hours = Num(800) THEN Str(<<"B", " ">>)
  ELSE Str(<<"C">>)

WeekCategoryOf(hours) ==
  IF hours = Num(800) THEN Str(<<"On Time">>)
  ELSE IF hours = Num(425) THEN Str(<<"Late">>)
  ELSE NullV

\* The rows a weekly table is made of, numbered 0 .. WeekRowCount - 1
WeekRowCount == Len(WeekCodes) * Len(WeekAttendance) * Cardinality(WeekDates)

WeekRow(i) ==
  LET c == WeekCodes[(i % Len(WeekCodes)) + 1]
      a == WeekAttendance[((i \div Len(WeekCodes)) % Len(WeekAttendance)) + 1]
      d == (i \div (Len(WeekCodes) * Len(WeekAttendance))) + 1
  IN  Row(c, WeekNameOf(c, a.hours), d, a.hours, a.status, WeekCategoryOf(a.hours))

\* Tables of at most MaxWeekRecords rows; the order in which a table holds
\* its rows is of no consequence (every query orders its result), so one
\* arrangement of each collection of rows is kept.
WeekTables ==
  UNION { { [k \in 1..n |-> WeekRow(f[k])] :
              f \in { g \in [1..n -> 0..(WeekRowCount - 1)] :
                        \A k \in 1..(n - 1) : g[k] <= g[k + 1] } } :
          n \in 0..MaxWeekRecords }

InitWeekly ==
  /\ table \in WeekTables
  /\ emp = [h \in EmpHooks |-> EmpHookInit]
  /\ pending = <<>>
  /\ returned = NotReturned
  /\ ExportIdle
  /\ NothingShown
  /\ DashboardIdle

CallWeekly(weekStart, weekEnd) ==
  /\ pending = <<>>
  /\ Assign(loadWeeklyEmployeeData([World EXCEPT !.sent = <<>>], "weeklyTab",
                                   weekStart, weekEnd, Direct))
  /\ UNCHANGED <<table, returned, lastAction>>
  /\ UNCHANGED exportVars

\* The responses the query of a call in flight may come back with
WeeklyResponses(call) ==
  { Ok(data) : data \in QueryWeek(call.args.weekStart, call.args.weekEnd) }
    \cup { Failed(err) : err \in ErrorValues }

ReturnWeekly ==
  /\ pending # <<>>
  /\ pending[1].op = "loadWeeklyEmployeeData"
  /\ pending[1].caller = Direct
  /\ \E resp \in WeeklyResponses(pending[1]) :
       LET out == WeeklyOutcome(pending[1], resp)
       IN  /\ emp' = [emp EXCEPT ![pending[1].hook] = out.hookState]
           /\ returned' = out.ret
  /\ pending' = Tail(pending)
  /\ UNCHANGED <<table, att, ui, sent, lastAction>>
  /\ UNCHANGED exportVars

NextWeekly ==
  \/ \E ws, we \in WeekDates : ws <= we /\ CallWeekly(ws, we)
  \/ ReturnWeekly

SpecWeekly == InitWeekly /\ [][NextWeekly]_vars

\* ------------------------------------------------------------------------
\* Properties of the weekly aggregation
\* ------------------------------------------------------------------------
\* The records of a query response that belong to the employee with the
\* given (normalised) code
RecordsOf(response, empCode) ==
  {k \in 1..Len(response) : NormStr(response[k].emp_code) = empCode}

WeeklyReturned == returned.op = "loadWeeklyEmployeeData" /\ returned.error = <<>>

\* C1: in the result of loadWeeklyEmployeeData, totalDays of every employee
\* is the number of records of the response carrying its emp_code, and
\* presentDays + leaveDays = totalDays.
C1_TotalDays ==
  WeeklyReturned =>
    \A i \in 1..Len(returned.data) :
      LET e == returned.data[i]
      IN  /\ e.totalDays = Cardinality(RecordsOf(returned.response, e.emp_code))
          /\ e.presentDays + e.leaveDays = e.totalDays

\* An employee with two records under differently written codes, one
\* present and one on leave
C1_Witness ==
  /\ WeeklyReturned
  /\ \E i \in 1..Len(returned.data) :
       /\ returned.data[i].presentDays = 1
       /\ returned.data[i].leaveDays = 1
       /\ \E k, l \in RecordsOf(returned.response, returned.data[i].emp_code) :
            returned.response[k].emp_code # returned.response[l].emp_code

RECURSIVE SumOver(_, _)
SumOver(S, f) ==
  IF S = {} THEN 0
  ELSE LET x == CHOOSE y \in S : TRUE IN f[x] + SumOver(S \ {x}, f)

\* The work_hours (hundredths) a record contributes when it is 'Present'
PresentHours(response) ==
  [k \in 1..Len(response) |->
     IF response[k].status = Str(<<"Present">>) /\ response[k].work_hours.t = "num"
     THEN response[k].work_hours.n ELSE 0]

\* C2: totalHours of every employee is the sum of work_hours over that
\* employee's 'Present' records, a missing work_hours counting as 0.
C2_TotalHours ==
  WeeklyReturned =>
    \A i \in 1..Len(returned.data) :
      LET e == returned.data[i]
      IN  e.totalHours = SumOver(RecordsOf(returned.response, e.emp_code),
                                 PresentHours(returned.response))

\* An employee with two present records of different hours and a record of
\* another status that carries hours
C2_Witness ==
  /\ WeeklyReturned
  /\ \E i \in 1..Len(returned.data) :
       LET own == RecordsOf(returned.response, returned.data[i].emp_code)
       IN  /\ returned.data[i].totalHours = 1225
           /\ \E k \in own : /\ returned.response[k].status # Str(<<"Present">>)
                             /\ returned.response[k].work_hours = Num(800)

\* ------------------------------------------------------------------------
\* Employee list exercised on its own: a caller invokes loadEmployees, one
\* call at a time, while the sync may insert rows.
\* ------------------------------------------------------------------------
EmpCodes == <<Str(<<"7">>), Str(<<" ", "7">>), Num(800), NullV>>
EmpNames == <<Str(<<"A">>), Str(<<"B", " ">>), NullV>>
EmpDates == {1, 2}

EmpRowCount == Len(EmpCodes) * Len(EmpNames) * Cardinality(EmpDates)

EmpRow(i) ==
  Row(EmpCodes[(i % Len(EmpCodes)) + 1],
      EmpNames[((i \div Len(EmpCodes)) % Len(EmpNames)) + 1],
      (i \div (Len(EmpCodes) * Len(EmpNames))) + 1,
      NullV, NullV, NullV)

EmpTables ==
  UNION { { [k \in 1..n |-> EmpRow(f[k])] :
              f \in { g \in [1..n -> 0..(EmpRowCount - 1)] :
                        \A k \in 1..(n - 1) : g[k] <= g[k + 1] } } :
          n \in 0..MaxEmpRows }

InitEmployees ==
  /\ table \in EmpTables
  /\ emp = [h \in EmpHooks |-> EmpHookInit]
  /\ pending = <<>>
  /\ returned = NotReturned
  /\ ExportIdle
  /\ NothingShown
  /\ DashboardIdle

CallEmployees ==
  /\ pending = <<>>
  /\ returned = NotReturned
  /\ Assign(loadEmployees([World EXCEPT !.sent = <<>>], "dashboard", Direct))
  /\ UNCHANGED <<table, returned, lastAction>>
  /\ UNCHANGED exportVars

EmployeesResponses(call) ==
  { Ok(batch) : batch \in QueryEmployeesPage(call.rangeStart) }
    \cup { Failed(err) : err \in ErrorValues }

ReturnEmployeesPage ==
  /\ pending # <<>>
  /\ pending[1].op = "loadEmployees"
  /\ pending[1].caller = Direct
  /\ \E resp \in EmployeesResponses(pending[1]) :
       LET out == EmployeesPageOutcome(pending[1], resp)
       IN  /\ emp' = [emp EXCEPT ![pending[1].hook] = out.hookState]
           /\ pending' = IF out.done THEN Tail(pending) ELSE <<out.call>>
           /\ returned' = IF out.done THEN out.ret ELSE returned
           /\ sent' = IF out.done THEN sent ELSE Append(sent, PageRequest(out.call))
  /\ UNCHANGED <<table, att, ui, lastAction>>
  /\ UNCHANGED exportVars

\* The batches the sync may insert while a load is running: a newer row of
\* employee 7 under another name, an unnamed row, or both
SyncBatches ==
  LET renamed == Row(Str(<<"7">>), Str(<<"B", " ">>), 2, NullV, NullV, NullV)
      unnamed == Row(Num(800), NullV, 2, NullV, NullV, NullV)
  IN  {<<renamed>>, <<unnamed>>, <<unnamed, renamed>>}

SyncDuringLoad ==
  /\ pending # <<>>
  /\ ~pending[1].tableChanged
  /\ Len(table) < MaxEmpRows
  /\ \E rows \in SyncBatches : SyncInsert(rows)
  /\ UNCHANGED <<emp, returned, att, ui, sent, lastAction>>
  /\ UNCHANGED exportVars

NextEmployees ==
  \/ CallEmployees
  \/ ReturnEmployeesPage
  \/ SyncDuringLoad

SpecEmployees == InitEmployees /\ [][NextEmployees]_vars

\* ------------------------------------------------------------------------
\* Properties of the employee list
\* ------------------------------------------------------------------------
EmployeesReturned == returned.op = "loadEmployees" /\ returned.error = <<>>

\* The employees list of the hook the call was made on
EmployeesList == emp[returned.hook].employees

\* The loaded rows (positions in allRecords) written with the given code
LoadedRowsOf(empCode) ==
  {k \in 1..Len(returned.response) : NormStr(returned.response[k].emp_code) = empCode}

\* ... and those among them that carry a name
NamedRowsOf(empCode) ==
  {k \in LoadedRowsOf(empCode) : NormStr(returned.response[k].name) # <<>>}

NoCodeTwice ==
  \A i, j \in 1..Len(EmployeesList) :
    i # j => EmployeesList[i].emp_code # EmployeesList[j].emp_code

\* C3 as stated: after loadEmployees succeeds, employees holds exactly one
\* entry for each distinct emp_code occurring in the loaded rows.
C3_Original ==
  EmployeesReturned =>
    /\ {EmployeesList[i].emp_code : i \in 1..Len(EmployeesList)}
         = {NormStr(returned.response[k].emp_code) : k \in 1..Len(returned.response)}
             \ {<<>>}
    /\ NoCodeTwice

\* C3 as amended: after loadEmployees succeeds, employees holds exactly one
\* entry for each distinct emp_code occurring in a loaded row that has both
\* a non-empty code and a non-empty name (after String(...).trim()); a code
\* whose rows all lack a name has no entry.
C3_OneEntryPerNamedCode ==
  EmployeesReturned =>
    /\ {EmployeesList[i].emp_code : i \in 1..Len(EmployeesList)}
         = {NormStr(returned.response[k].emp_code) :
              k \in {l \in 1..Len(returned.response) :
                       /\ NormStr(returned.response[l].emp_code) # <<>>
                       /\ NormStr(returned.response[l].name) # <<>>}}
    /\ NoCodeTwice

\* Two employees, one of them loaded from rows that write its code
\* differently, and a third code whose only row has no name
C3_Witness ==
  /\ EmployeesReturned
  /\ Len(EmployeesList) = 2
  /\ \E k, l \in 1..Len(returned.response) :
       /\ returned.response[k].emp_code # returned.response[l].emp_code
       /\ NormStr(returned.response[k].emp_code) = NormStr(returned.response[l].emp_code)
       /\ NormStr(returned.response[k].name) # <<>>
       /\ NormStr(returned.response[l].name) # <<>>

MaxDateOf(rows) ==
  CHOOSE d \in {returned.response[k].date : k \in rows} :
    \A k \in rows : returned.response[k].date <= d

\* Several loaded rows share the code and carry different names
NameCollision(empCode) ==
  \E k, l \in LoadedRowsOf(empCode) :
    returned.response[k].name # returned.response[l].name

\* C4 as stated: when several loaded rows share an emp_code but carry
\* different names, the name stored for that emp_code is the name of the row
\* with the most recent date among all rows of that emp_code.
C4_Original ==
  EmployeesReturned =>
    \A i \in 1..Len(EmployeesList) :
      LET e == EmployeesList[i]
      IN  NameCollision(e.emp_code) =>
            \E k \in LoadedRowsOf(e.emp_code) :
              /\ returned.response[k].date = MaxDateOf(LoadedRowsOf(e.emp_code))
              /\ NormStr(returned.response[k].name) = e.name

\* C4 as amended: the name stored for an emp_code is the trimmed name of the
\* first row, in the order the rows were loaded, among the rows of that
\* emp_code that have a name; when the table was not written to while the
\* pages were fetched, that row has the most recent date among them.
C4_MostRecentNamedRow ==
  EmployeesReturned =>
    \A i \in 1..Len(EmployeesList) :
      LET e == EmployeesList[i]
          named == NamedRowsOf(e.emp_code)
          first == CHOOSE k \in named : \A l \in named : k <= l
      IN  /\ named # {}
          /\ e.name = NormStr(returned.response[first].name)
          /\ ~returned.tableChanged =>
               returned.response[first].date = MaxDateOf(named)

\* An employee with an older row under one name, a newer row under another
\* and a still newer or equally new row without a name, loaded from an
\* unchanged table
C4_Witness ==
  /\ EmployeesReturned
  /\ ~returned.tableChanged
  /\ \E i \in 1..Len(EmployeesList) :
       LET rows == LoadedRowsOf(EmployeesList[i].emp_code)
       IN  \E k, l, m \in rows :
             /\ returned.response[k].date < returned.response[l].date
             /\ NormStr(returned.response[k].name) # <<>>
             /\ NormStr(returned.response[l].name) # <<>>
             /\ NormStr(returned.response[k].name) # NormStr(returned.response[l].name)
             /\ NormStr(returned.response[m].name) = <<>>
             /\ returned.response[m].date = MaxDateOf(rows)


\* ------------------------------------------------------------------------
\* Reading a CSV file back: fields separated by commas, records ended by a
\* newline, a field that opens with a double quote runs to its closing
\* quote, and two quotes inside it stand for one.
\* ------------------------------------------------------------------------
\* What a character does to the reader's position inside a field
NextMode(mode, c) ==
  CASE mode = "quoted" -> IF c = "\"" THEN "quoteSeen" ELSE "quoted"
    [] mode = "quoteSeen" /\ c = "\"" -> "quoted"
    [] mode = "start" /\ c = "\"" -> "quoted"
    [] mode # "quoted" /\ c = "," -> "start"
    [] OTHER -> "plain"

\* The first position from i on that holds one of stops outside quotes,
\* Len(s) + 1 when there is none
RECURSIVE ScanEnd(_, _, _, _)
ScanEnd(s, i, mode, stops) ==
  IF i > Len(s) THEN i
  ELSE IF mode # "quoted" /\ s[i] \in stops THEN i
  ELSE ScanEnd(s, i + 1, NextMode(mode, s[i]), stops)

\* The text of a field that opened with a quote, after that quote
RECURSIVE Unquote(_, _)
Unquote(r, mode) ==
  IF r = <<>> THEN <<>>
  ELSE IF mode = "quoted"
  THEN IF Head(r) = "\"" THEN Unquote(Tail(r), "quoteSeen")
       ELSE <<Head(r)>> \o Unquote(Tail(r), "quoted")
  ELSE IF Head(r) = "\"" THEN <<"\"">> \o Unquote(Tail(r), "quoted")
  ELSE r

FieldValue(raw) ==
  IF raw # <<>> /\ Head(raw) = "\"" THEN Unquote(Tail(raw), "quoted") ELSE raw

RECURSIVE SplitFields(_)
SplitFields(rec) ==
  LET e == ScanEnd(rec, 1, "start", {","})
  IN  IF e > Len(rec) THEN <<FieldValue(rec)>>
      ELSE <<FieldValue(SubSeq(rec, 1, e - 1))>> \o SplitFields(SubSeq(rec, e + 1, Len(rec)))

RECURSIVE SplitRecords(_)
SplitRecords(s) ==
  IF s = <<>> THEN <<>>
  ELSE LET e == ScanEnd(s, 1, "start", {"\n"})
       IN  <<SplitFields(SubSeq(s, 1, e - 1))>> \o SplitRecords(SubSeq(s, e + 1, Len(s)))

ParseCSV(content) == SplitRecords(content)

RECURSIVE Undouble(_)
Undouble(s) ==
  IF s = <<>> THEN <<>>
  ELSE IF Len(s) >= 2 /\ s[1] = "\"" /\ s[2] = "\""
  THEN <<"\"">> \o Undouble(SubSeq(s, 3, Len(s)))
  ELSE <<Head(s)>> \o Undouble(Tail(s))

\* Reading one field back
UnescapeCSV(f) ==
  IF Len(f) >= 2 /\ f[1] = "\"" /\ f[Len(f)] = "\""
  THEN Undouble(SubSeq(f, 2, Len(f) - 1))
  ELSE f

\* ------------------------------------------------------------------------
\* The export buttons exercised on their own
\* ------------------------------------------------------------------------
MaxCsvRows == 2

\* Field values that need care: missing, zero, empty, and strings carrying
\* a comma, a double quote or a newline
CsvValues ==
  {NullV, Num(0), Str(<<>>), Str(<<"x", ",", "y">>), Str(<<"\"", "x", "\"">>),
   Str(<<"x", "\n", "y">>), Str(<<"x", "\"", ",", "\n">>)}

DailyBase ==
  [date |-> Str(<<"2025-01-06">>), total_employees_present |-> Num(4000),
   early_count |-> Num(100), ontime_count |-> Num(3000),
   acceptable_count |-> Num(500), late_count |-> Num(400),
   ontime_rate |-> Num(7750), earliest_checkin |-> Str(<<"07:55">>),
   latest_checkin |-> Str(<<"10:12">>)]

DailyRows ==
  {DailyBase} \cup
  {[DailyBase EXCEPT ![f] = v] :
     f \in {"date", "ontime_rate", "earliest_checkin", "latest_checkin"},
     v \in CsvValues}

WeeklyBase ==
  [week_start |-> Str(<<"2025-01-06">>), week_end |-> Str(<<"2025-01-12">>),
   total_employees |-> Num(4000), perfect_attendance_count |-> Num(1200),
   perfect_attendance_rate |-> Num(3000)]

WeeklyRows ==
  {WeeklyBase} \cup
  {[WeeklyBase EXCEPT ![f] = v] :
     f \in {"week_start", "total_employees", "perfect_attendance_rate"},
     v \in CsvValues}

\* EmployeeRecord as the export reads it; the date is the string the store
\* returns
EmployeeBase ==
  [date |-> Str(<<"2025-01-06">>), emp_code |-> Str(<<"7">>), name |-> Str(<<"A">>),
   check_in |-> Str(<<"08:58">>), check_out |-> Str(<<"17:31">>),
   work_hours |-> Num(850), total_punches |-> Num(400),
   status |-> Str(<<"Present">>), time_category |-> Str(<<"On Time">>)]

EmployeeRows ==
  {EmployeeBase} \cup
  {[EmployeeBase EXCEPT ![f] = v] :
     f \in {"emp_code", "name", "work_hours", "time_category"},
     v \in CsvValues}

\* WeeklyEmployeeData comes out of loadWeeklyEmployeeData
DetailCodes == {<<"7">>, <<"7", ",", "8">>}
DetailNames == {<<>>, <<"A">>, <<"A", ",", "B">>, <<"\"", "A", "\"">>, <<"A", "\n", "B">>}
DetailWeeks(code, name) ==
  {<<Row(Str(code), Str(name), 1, Num(850), Str(<<"Present">>), Str(<<"On Time">>))>>,
   <<Row(Str(code), Str(name), 1, NullV, Str(<<"Leave">>), NullV)>>,
   <<Row(Str(code), Str(name), 1, Num(825), Str(<<"Present">>), Str(<<"Late">>)),
     Row(Str(code), Str(name), 2, Num(850), Str(<<"Present">>), Str(<<"Late">>)),
     Row(Str(code), Str(name), 2, NullV, Str(<<"Leave">>), NullV)>>}

DetailRows ==
  UNION {{ProcessWeekly(w)[1] : w \in DetailWeeks(code, name)} :
           code \in DetailCodes, name \in DetailNames}

ExportRows(type) ==
  CASE type = "daily" -> DailyRows
    [] type = "weekly" -> WeeklyRows
    [] type = "weeklyDetails" -> DetailRows
    [] OTHER -> EmployeeRows

ExportLists(type) ==
  UNION {[1..n -> ExportRows(type)] : n \in 0..MaxCsvRows}

InitExport ==
  /\ table = <<>>
  /\ emp = [h \in EmpHooks |-> EmpHookInit]
  /\ pending = <<>>
  /\ returned = NotReturned
  /\ DashboardIdle
  /\ ExportIdle
  /\ \E type \in ExportTypes : \E data \in ExportLists(type) :
       shown = [type |-> type, data |-> data]

\* onClick={() => exportData(type, data)} of a tab's export button
ClickExport ==
  /\ exportData(shown.type, shown.data)
  /\ UNCHANGED <<hookVars, shown>>

ExportTimer ==
  /\ \E canDownload \in BOOLEAN : exportDataResume(canDownload)
  /\ UNCHANGED <<hookVars, shown>>

NextExport == ClickExport \/ ExportTimer

SpecExport == InitExport /\ [][NextExport]_vars

\* ------------------------------------------------------------------------
\* Properties of the export
\* ------------------------------------------------------------------------
Exported == download.saved

\* The column names listed for each export kind
ListedColumns(type) ==
  CASE type = "daily" ->
         <<"Date", "Total Employees", "Early Count", "On-time Count", "Acceptable Count",
           "Late Count", "On-time Rate (%)", "Earliest Check-in", "Latest Check-in">>
    [] type = "weekly" ->
         <<"Week Start", "Week End", "Total Employees", "Perfect Attendance Count",
           "Perfect Attendance Rate (%)">>
    [] type = "weeklyDetails" ->
         <<"Employee Code", "Name", "Total Days", "Present Days", "Leave Days",
           "Total Hours", "On-time Days", "Late Days", "Attendance Rate (%)">>
    [] OTHER ->
         <<"Date", "Employee Code", "Name", "Check In", "Check Out", "Work Hours",
           "Total Punches", "Status", "Time Category">>

\* The record field each column is named after
ColumnFields(type) ==
  CASE type = "daily" ->
         <<"date", "total_employees_present", "early_count", "ontime_count",
           "acceptable_count", "late_count", "ontime_rate", "earliest_checkin",
           "latest_checkin">>
    [] type = "weekly" ->
         <<"week_start", "week_end", "total_employees", "perfect_attendance_count",
           "perfect_attendance_rate">>
    [] type = "weeklyDetails" ->
         <<"emp_code", "name", "totalDays", "presentDays", "leaveDays", "totalHours",
           "onTimeDays", "lateDays", "attendanceRate">>
    [] OTHER ->
         <<"date", "emp_code", "name", "check_in", "check_out", "work_hours",
           "total_punches", "status", "time_category">>

\* The text of a field value: nothing for a missing one
ValueText(v) == IF v.t = "null" THEN <<>> ELSE JSString(v)

\* The texts a column may show for a record: the text of its field, or
\* nothing when the field is missing, empty or zero.  The weekly details
\* show the hours to one decimal and derive the attendance rate.
FieldTexts(type, row, k) ==
  LET f == ColumnFields(type)[k]
  IN  IF type = "weeklyDetails"
      THEN {IF f \in {"emp_code", "name"} THEN row[f]
            ELSE IF f = "totalHours" THEN NumToString(roundHours(row.totalHours))
            ELSE IF f = "attendanceRate"
            THEN NatDigits(calculateAttendanceRate(row.presentDays, row.totalDays))
            ELSE NatDigits(row[f])}
      ELSE {ValueText(row[f])} \cup (IF Falsy(row[f]) THEN {<<>>} ELSE {})

\* C5: for each export kind the file starts with a header line holding
\* exactly the listed column names in the listed order, and every data
\* line gives the record's fields in the order of the header columns.
C5_ColumnOrder ==
  Exported =>
    LET parsed == ParseCSV(download.content)
        cols == ListedColumns(download.type)
    IN  /\ Len(parsed) >= 1
        /\ parsed[1] = [k \in 1..Len(cols) |-> <<cols[k]>>]
        /\ Len(cols) = (CASE download.type = "weekly" -> 5 [] OTHER -> 9)
        /\ Len(parsed) = 1 + Len(download.data)
        /\ \A r \in 1..Len(download.data) :
             /\ Len(parsed[r + 1]) = Len(cols)
             /\ \A k \in 1..Len(cols) :
                  parsed[r + 1][k] \in FieldTexts(download.type, download.data[r], k)

\* A weekly details export of two employees with different names was saved
C5_Witness ==
  /\ Exported
  /\ Len(download.data) = 2
  /\ download.type = "weeklyDetails"
  /\ download.data[1].name # download.data[2].name

\* C6: for every export kind and non-empty record list the file has one
\* header line and one data line per record, and every data line read back
\* has as many fields as the header, also when values are missing or carry
\* commas, double quotes or newlines.
C6_LineAndFieldCount ==
  Exported =>
    LET parsed == ParseCSV(download.content)
    IN  /\ Len(parsed) = 1 + Len(download.data)
        /\ \A r \in 1..Len(parsed) : Len(parsed[r]) = Len(parsed[1])
        /\ download.type = "daily" => Len(parsed[1]) = 9

\* A daily export was saved whose record has a latest check-in carrying a
\* comma, a double quote and a newline, next to a record with it missing
C6_Witness ==
  /\ Exported
  /\ download.type = "daily"
  /\ Len(download.data) = 2
  /\ download.data[1].latest_checkin = Str(<<"x", "\"", ",", "\n">>)
  /\ download.data[2].latest_checkin = NullV


\* ------------------------------------------------------------------------
\* escapeCSV exercised on its own, over every short string
\* ------------------------------------------------------------------------
MaxStrLen == 3

EscapeChars == {"a", " ", ",", "\"", "\n"}

EscapeInputs ==
  {NullV, Num(0), Num(850)} \cup
  {Str(s) : s \in UNION {[1..n -> EscapeChars] : n \in 0..MaxStrLen}}

InitEscape ==
  /\ table = <<>>
  /\ emp = [h \in EmpHooks |-> EmpHookInit]
  /\ pending = <<>>
  /\ returned = NotReturned
  /\ DashboardIdle
  /\ ExportIdle
  /\ \E v \in EscapeInputs : shown = [type |-> "cell", data |-> <<v>>]

\* One cell written by escapeCSV
EscapeCell ==
  /\ download = NoDownload
  /\ download' = [type |-> "cell", data |-> shown.data, saved |-> FALSE, alert |-> "",
                  content |-> escapeCSV(shown.data[1])]
  /\ UNCHANGED <<hookVars, exporting, exportJob, shown>>

NextEscape == EscapeCell

SpecEscape == InitEscape /\ [][NextEscape]_vars

CellWritten == download.type = "cell"

NeedsQuoting(s) == Contains(s, ",") \/ Contains(s, "\"") \/ Contains(s, "\n")

QuoteCount(s) == Cardinality({i \in 1..Len(s) : s[i] = "\""})

\* C7: escapeCSV is a reversible encoding: a value is wrapped in double
\* quotes exactly when it contains a comma, a double quote or a newline,
\* every double quote inside is doubled, a missing value becomes the empty
\* string, and reading the result back by the CSV rule gives the original
\* string.
C7_Reversible ==
  CellWritten =>
    LET v == download.data[1]
        out == download.content
        str == JSString(v)
    IN  IF v.t = "null" THEN out = <<>>
        ELSE /\ NeedsQuoting(str) =>
                  /\ Len(out) = Len(str) + QuoteCount(str) + 2
                  /\ out[1] = "\""
                  /\ out[Len(out)] = "\""
                  /\ Undouble(SubSeq(out, 2, Len(out) - 1)) = str
             /\ ~NeedsQuoting(str) => out = str
             /\ UnescapeCSV(out) = str

\* A string with a quote and a comma was written, wrapped, the quote doubled
C7_Witness ==
  /\ CellWritten
  /\ download.data[1] = Str(<<"a", "\"", ",">>)
  /\ download.content = <<"\"", "a", "\"", "\"", ",", "\"">>


\* ------------------------------------------------------------------------
\* The load operations of the two hooks, called one at a time by a caller
\* that looks at what they return
\* ------------------------------------------------------------------------
DashboardTable ==
  <<Row(Str(<<"7">>), Str(<<"A">>), 1, Num(850), Str(<<"Present">>), Str(<<"On Time">>)),
    Row(Str(<<"7">>), Str(<<"A">>), 3, Num(825), Str(<<"Present">>), Str(<<"Late">>))>>

InitHooks ==
  /\ table = DashboardTable
  /\ emp = [h \in EmpHooks |-> EmpHookInit]
  /\ pending = <<>>
  /\ returned = NotReturned
  /\ DashboardIdle
  /\ ExportIdle
  /\ NothingShown

\* The state a caller or a user action starts from: nothing sent yet
Fresh == [World EXCEPT !.sent = <<>>]

CallStarts(w) ==
  /\ pending = <<>>
  /\ Assign(w)
  /\ UNCHANGED <<table, returned, lastAction>>
  /\ UNCHANGED exportVars

CallLoadDailyData == CallStarts(loadDailyData(Fresh, Direct))

CallLoadWeeklyData == CallStarts(loadWeeklyData(Fresh, Direct))

CallRefreshData == CallStarts(refreshData(Fresh, Direct))

CallLoadEmployees == CallStarts(loadEmployees(Fresh, "dashboard", Direct))

CallLoadEmployeeData ==
  \E date \in {1, 3} : CallStarts(loadEmployeeData(Fresh, "dashboard", date, Direct))

CallLoadWeeklyEmployeeData ==
  \E week \in {<<1, 2>>, <<3, 4>>} :
    CallStarts(loadWeeklyEmployeeData(Fresh, "dashboard", week[1], week[2], Direct))

\* Months a caller may pass: two months, and three malformed strings
MonthInputs == {<<"2025", "01">>, <<"2025", "02">>, <<"2025", "13">>, <<"soon">>, <<>>}

CallLoadEmployeeMonthlyData ==
  \E empCode \in {<<"7">>, <<" ", "8">>}, month \in MonthInputs :
    LET w == loadEmployeeMonthlyData(Fresh, "dashboard", empCode, month, Direct)
    IN  /\ pending = <<>>
        /\ Assign(w)
        /\ returned' = IF getMonthDateRange(month).thrown
                       THEN WithAfter(MonthlyThrown("dashboard", empCode, month, Direct), w)
                       ELSE returned
        /\ UNCHANGED <<table, lastAction>>
        /\ UNCHANGED exportVars

ResponseArrives ==
  \E k \in 1..Len(pending) : \E resp \in Responses(pending[k]) : Arrives(k, resp)

NextHooks ==
  \/ CallLoadDailyData
  \/ CallLoadWeeklyData
  \/ CallRefreshData
  \/ CallLoadEmployees
  \/ CallLoadEmployeeData
  \/ CallLoadWeeklyEmployeeData
  \/ CallLoadEmployeeMonthlyData
  \/ ResponseArrives

SpecHooks == InitHooks /\ [][NextHooks]_vars

\* The context labels an operation puts in front of its error messages
ContextLabels(op) ==
  CASE op = "loadDailyData" -> {"Daily Data Loading"}
    [] op = "loadWeeklyData" -> {"Weekly Data Loading"}
    [] op = "refreshData" -> {"Daily Data Loading", "Weekly Data Loading", "Data Refresh"}
    [] op = "loadEmployees" -> {"Employee Loading"}
    [] op = "loadEmployeeData" -> {"Employee Records Loading"}
    [] op = "loadEmployeeMonthlyData" -> {"Monthly Employee Data Loading"}
    [] op = "loadWeeklyEmployeeData" -> {"Weekly Employee Data Loading"}
    [] OTHER -> {}

FailureReported ==
  /\ returned.error # <<>>
  /\ returned.after.error # <<>>
  /\ returned.after.error[1] \in ContextLabels(returned.op)
  /\ ~returned.after.loading

\* C8: every load operation of the two hooks whose query returned an error,
\* or whose month string is malformed, resolves with a non-empty error
\* value, leaves the error of its hook a non-empty string that starts with
\* the context label of the operation, and leaves loading false.
C8_FailedLoadReported ==
  returned.failed => FailureReported

\* C8, for every operation but a refreshData whose daily query succeeded
\* and whose weekly query failed
C8_ButWeeklyOnlyRefresh ==
  (returned.failed /\ ~(returned.op = "refreshData" /\ ~returned.dataNull))
    => FailureReported

\* A malformed month was reported by loadEmployeeMonthlyData
C8_Witness ==
  /\ returned.op = "loadEmployeeMonthlyData"
  /\ returned.args.month = <<"2025", "13">>
  /\ returned.failed
  /\ FailureReported

\* ------------------------------------------------------------------------
\* The Dashboard in the browser: the user acts, responses arrive
\* ------------------------------------------------------------------------
MaxPending == 1

InitDashboard == InitHooks

Trigger(kind, arg) == [kind |-> kind, arg |-> arg]

\* The user did something: the handler has run up to its first await and
\* React has rendered
UserDoes(kind, arg, w) ==
  /\ ui.mounted \/ kind = "mount"
  /\ Assign(Render(w))
  /\ lastAction' = [kind |-> kind, arg |-> arg, failed |-> FALSE,
                    retry |-> /\ lastAction.kind = kind
                              /\ lastAction.arg = arg
                              /\ lastAction.failed]
  /\ UNCHANGED <<table, returned>>
  /\ UNCHANGED exportVars

\* useEffect(() => { initializeData() }, ...) on mount
Mount ==
  /\ ~ui.mounted
  /\ UserDoes("mount", <<>>,
              initializeData([Fresh EXCEPT !.ui.mounted = TRUE], Trigger("mount", <<>>)))

Tabs == {"summary", "employees", "weekly", "monthly"}

\* onClick={() => setActiveTab(tab.id)}
ClickTab ==
  \E tab \in Tabs :
    /\ ~Spinner(World)
    /\ UserDoes("tab", <<tab>>, [Fresh EXCEPT !.ui.activeTab = tab])

\* The Refresh button, disabled={loading}
PressRefresh ==
  /\ ~att.loading
  /\ ~emp["dashboard"].loading
  /\ Len(pending) < MaxPending
  /\ UserDoes("refresh", <<>>, handleRefresh(Fresh, Trigger("refresh", <<>>)))

\* The date selector of EmployeeDetailsTab, which shows only when the tab
\* is neither loading nor in error
SelectDate ==
  \E i \in 1..Len(att.dailyData) :
    /\ Shown(World, "employees")
    /\ ~emp["dashboard"].loading
    /\ emp["dashboard"].error = <<>>
    /\ Len(pending) < MaxPending
    /\ UserDoes("date", <<att.dailyData[i].date>>,
                handleDateChange(Fresh, att.dailyData[i].date,
                                 Trigger("date", <<att.dailyData[i].date>>)))

WeeklyTabUsable ==
  /\ Shown(World, "weekly")
  /\ ~att.loading
  /\ att.error = <<>>
  /\ Len(att.weeklyData) > 0

\* onClick={() => setViewMode(...)} of WeeklyReportsTab
SetViewMode ==
  \E mode \in {"summary", "details"} :
    /\ WeeklyTabUsable
    /\ UserDoes("view", <<mode>>, [Fresh EXCEPT !.ui.weekly.viewMode = mode])

\* The week selector of the details view, with fewer than cap calls in
\* flight
SelectWeekBelow(cap) ==
  \E i \in 1..Len(att.weeklyData) :
    /\ WeeklyTabUsable
    /\ ui.weekly.viewMode = "details"
    /\ Len(pending) < cap
    /\ UserDoes("week", WeekKey(att.weeklyData[i]),
                handleWeeklySelect(Fresh, WeekKey(att.weeklyData[i]),
                                   Trigger("week", WeekKey(att.weeklyData[i]))))

MonthlyTabUsable ==
  /\ Shown(World, "monthly")
  /\ ~emp["dashboard"].loading
  /\ emp["dashboard"].error = <<>>

SelectWeek == SelectWeekBelow(MaxPending)

\* The employee selector of MonthlyReportsTab, with its empty first option
SelectEmployeeBelow(cap) ==
  \E empCode \in {<<>>} \cup {emp["dashboard"].employees[i].emp_code :
                                i \in 1..Len(emp["dashboard"].employees)} :
    /\ MonthlyTabUsable
    /\ Len(pending) < cap
    /\ UserDoes("employee", empCode,
                handleEmployeeSelect(Fresh, empCode, Trigger("employee", empCode)))

SelectEmployee == SelectEmployeeBelow(MaxPending)

\* The month input, which gives a month or the empty string
SelectMonthBelow(cap) ==
  \E month \in {<<>>, <<"2025", "01">>, <<"2025", "02">>} :
    /\ MonthlyTabUsable
    /\ Len(pending) < cap
    /\ UserDoes("month", month, handleMonthChange(Fresh, month, Trigger("month", month)))

SelectMonth == SelectMonthBelow(MaxPending)

NextDashboard ==
  \/ Mount
  \/ ClickTab
  \/ PressRefresh
  \/ SelectDate
  \/ SetViewMode
  \/ SelectWeek
  \/ SelectEmployee
  \/ SelectMonth
  \/ ResponseArrives

SpecDashboard == InitDashboard /\ [][NextDashboard]_vars

RECURSIVE IsInfix(_, _)
IsInfix(needle, hay) ==
  IF Len(needle) > Len(hay) THEN FALSE
  ELSE IF SubSeq(hay, 1, Len(needle)) = needle THEN TRUE
  ELSE IsInfix(needle, Tail(hay))

TabHandlers ==
  {"handleDateChange", "handleWeeklySelect", "handleEmployeeSelect", "handleMonthChange"}

\* C9: whenever a query triggered from one of the tabs has failed, the
\* Dashboard rendered once the operation has completed shows an error
\* banner that contains the failure message.
C9_BannerShowsFailure ==
  (returned.failed /\ returned.handler \in TabHandlers)
    => (returned.after.banner # <<>> /\ IsInfix(returned.error, returned.after.banner))

\* C10: when the user repeats the action whose load has failed (the same
\* date, employee, month or week selected again, or Refresh pressed again),
\* a new request is sent to the store.
C10_RepeatSendsRequest ==
  lastAction.retry => sent # <<>>


\* ------------------------------------------------------------------------
\* Requests outstanding, retries, and the store
\* ------------------------------------------------------------------------
\* The requests outstanding for the calls in flight that run for the user
\* action trigger
OutstandingFor(trigger) ==
  LET own == {k \in 1..Len(pending) :
                /\ pending[k].caller.trigger.kind = trigger.kind
                /\ pending[k].caller.trigger.arg = trigger.arg}
  IN  SumOver(own, [k \in own |-> pending[k].awaiting])

\* C11: each UI action (initial load, Refresh, date, employee, month and
\* week selection) has at most one remote request outstanding at any moment.
C11_OneOutstandingRequest ==
  lastAction.kind # "none"
    => OutstandingFor(Trigger(lastAction.kind, lastAction.arg)) <= 1

\* C12: no failed query is retried: a call whose query came back with an
\* error is no longer in flight, so it asks the store for nothing more
\* (loadEmployees stops paginating at the first failing page).
C12_NoRetry ==
  \A k \in 1..Len(pending) : pending[k].failures = 0

\* loadEmployees has failed at its second page and asked for nothing more
C12_Witness ==
  /\ returned.op = "loadEmployees"
  /\ returned.failed
  /\ pending = <<>>
  /\ Len(sent) = 2

Limbs == 1..8
LimbCount == Cardinality(Limbs)
LimbBase == 2 ^ 10

BigZero == <<0, 0, 0, 0, 0, 0, 0, 0>>

\* Carries are passed upwards until every limb is below LimbBase: s[i] is
\* limb i with the carry of the limbs below it
BigNorm(a) ==
  LET s1 == a[1]
      s2 == a[2] + s1 \div LimbBase
      s3 == a[3] + s2 \div LimbBase
      s4 == a[4] + s3 \div LimbBase
      s5 == a[5] + s4 \div LimbBase
      s6 == a[6] + s5 \div LimbBase
      s7 == a[7] + s6 \div LimbBase
      s8 == a[8] + s7 \div LimbBase
  IN  <<s1 % LimbBase, s2 % LimbBase, s3 % LimbBase, s4 % LimbBase,
        s5 % LimbBase, s6 % LimbBase, s7 % LimbBase, s8 % LimbBase>>

BigFromNat(n) == BigNorm(<<n, 0, 0, 0, 0, 0, 0, 0>>)

BigAdd(a, b) ==
  BigNorm(<<a[1] + b[1], a[2] + b[2], a[3] + b[3], a[4] + b[4],
            a[5] + b[5], a[6] + b[6], a[7] + b[7], a[8] + b[8]>>)

\* a * n for a small n
BigTimes(a, n) ==
  BigNorm(<<a[1] * n, a[2] * n, a[3] * n, a[4] * n,
            a[5] * n, a[6] * n, a[7] * n, a[8] * n>>)

\* Limb i of a, 0 below the lowest limb
LimbAt(a, i) == IF i >= 1 THEN a[i] ELSE 0

\* a * 2^s: whole limbs are moved up, the rest is a multiplication
BigShiftLeft(a, s) ==
  LET whole == s \div 10
  IN  BigTimes(<<LimbAt(a, 1 - whole), LimbAt(a, 2 - whole), LimbAt(a, 3 - whole),
                 LimbAt(a, 4 - whole), LimbAt(a, 5 - whole), LimbAt(a, 6 - whole),
                 LimbAt(a, 7 - whole), LimbAt(a, 8 - whole)>>,
               2 ^ (s % 10))

\* floor(a / n) for a small n, by long division from the top limb: d[i] is
\* limb i with what the limbs above it have left over
BigDiv(a, n) ==
  LET d8 == a[8]
      d7 == (d8 % n) * LimbBase + a[7]
      d6 == (d7 % n) * LimbBase + a[6]
      d5 == (d6 % n) * LimbBase + a[5]
      d4 == (d5 % n) * LimbBase + a[4]
      d3 == (d4 % n) * LimbBase + a[3]
      d2 == (d3 % n) * LimbBase + a[2]
      d1 == (d2 % n) * LimbBase + a[1]
  IN  <<d1 \div n, d2 \div n, d3 \div n, d4 \div n,
        d5 \div n, d6 \div n, d7 \div n, d8 \div n>>

\* The number of bits of a
BitLength(a) ==
  IF a = BigZero THEN 0
  ELSE LET top == CHOOSE i \in Limbs : a[i] # 0 /\ \A j \in Limbs : j > i => a[j] = 0
           bits == CHOOSE b \in 1..10 : 2 ^ (b - 1) <= a[top] /\ a[top] < 2 ^ b
       IN  (top - 1) * 10 + bits

\* The double nearest to an exact result: 53 significant bits are kept, the
\* rest is rounded to nearest, a tie going to the even significand
RoundToDouble(a) ==
  LET drop == BitLength(a) - 53
      low == a[1] + LimbBase * a[2]
      rest == low % (2 ^ drop)
      half == 2 ^ (drop - 1)
      odd == (low \div (2 ^ drop)) % 2 = 1
      up == rest > half \/ (rest = half /\ odd)
      kept == low - rest + (IF up THEN 2 ^ drop ELSE 0)
  IN  IF drop <= 0 THEN a
      ELSE BigNorm([a EXCEPT ![1] = kept % LimbBase, ![2] = kept \div LimbBase])

\* The exponent of the double of cents / 100: 2^j <= cents / 100 < 2^(j + 1)
ExponentOf(cents) ==
  CHOOSE j \in -7..12 :
    IF j >= 0 THEN 100 * (2 ^ j) <= cents /\ cents < 200 * (2 ^ j)
    ELSE 100 <= cents * (2 ^ (0 - j)) /\ cents * (2 ^ (0 - j)) < 200

\* The double a number with two decimals arrives as (JSON.parse): its
\* significand is cents * 2^(52 - j) / 100 rounded to nearest (no tie can
\* occur)
DoubleOf(cents) ==
  IF cents = 0 THEN BigZero
  ELSE LET j == ExponentOf(cents)
           scaled == BigShiftLeft(BigFromNat(2 * cents), 52 - j)
           significand == BigDiv(BigAdd(scaled, BigFromNat(100)), 200)
       IN  BigShiftLeft(significand, j + 7)

\* a + b and x * 10 in double arithmetic
DoubleAdd(a, b) == RoundToDouble(BigAdd(a, b))

DoubleTimes10(x) == RoundToDouble(BigTimes(x, 10))

\* Math.round(x): floor(x + 0.5), as an integer
MathRoundDouble(x) ==
  LET y == BigAdd(x, BigShiftLeft(BigFromNat(1), 58))
  IN  (y[6] \div 512) + 2 * y[7] + 2048 * y[8]

\* Math.round(hours * 10) / 10, in tenths
RoundToTenth(hours) == MathRoundDouble(DoubleTimes10(hours))

\* hours.reduce((sum, h) => sum + h, 0) and totalHours += work_hours
RECURSIVE SumHours(_)
SumHours(hours) ==
  IF hours = <<>> THEN BigZero
  ELSE DoubleAdd(SumHours(SubSeq(hours, 1, Len(hours) - 1)), DoubleOf(hours[Len(hours)]))


\* ------------------------------------------------------------------------
\* Hour totals rounded to one decimal: work_hours are summed, and the total
\* goes through Math.round(total * 10) / 10
\* ------------------------------------------------------------------------
MaxCents == 900

\* work_hours, in hundredths, that a second record of the total may have
Addends == {10, 35, 845}

HourLists ==
  {<<a>> : a \in 0..MaxCents} \cup {<<a, b>> : a \in 0..MaxCents, b \in Addends}

InitRounding ==
  /\ table = <<>>
  /\ emp = [h \in EmpHooks |-> EmpHookInit]
  /\ pending = <<>>
  /\ returned = NotReturned
  /\ DashboardIdle
  /\ ExportIdle
  /\ \E hours \in HourLists : shown = [type |-> "hours", data |-> hours]

\* The shown hours are summed, and the total is rounded for display or
\* export
RoundTotal ==
  /\ download = NoDownload
  /\ \E total \in {SumHours(shown.data)} :
       download' = [type |-> "hours", data |-> shown.data, saved |-> FALSE, alert |-> "",
                    content |-> <<RoundToTenth(total)>>]
  /\ UNCHANGED <<hookVars, exporting, exportJob, shown>>

NextRounding == RoundTotal

SpecRounding == InitRounding /\ [][NextRounding]_vars

\* The exact total of a list of hours, in hundredths
RECURSIVE ExactCents(_)
ExactCents(hours) ==
  IF hours = <<>> THEN 0 ELSE Head(hours) + ExactCents(Tail(hours))

TotalRounded == download.type = "hours"

\* C13: an hour total rounded to one decimal is its value in hundredths
\* rounded half up at the tenths place.
C13_RoundHalfUp ==
  TotalRounded => download.content[1] = (ExactCents(download.data) + 5) \div 10

\* C13 for a value that is one number with two decimals, not a sum
C13_OneValueRoundsHalfUp ==
  (TotalRounded /\ Len(download.data) = 1)
    => download.content[1] = (ExactCents(download.data) + 5) \div 10

\* 8.45 hours, halfway between two tenths, has been rounded to 8.5
C13_Witness ==
  /\ TotalRounded
  /\ download.data = <<845>>
  /\ download.content = <<85>>


\* ------------------------------------------------------------------------
\* The details view of WeeklyReportsTab
\* ------------------------------------------------------------------------
\* The user has just switched to the details view, a week is selected and
\* no weekly employee data is loaded
SwitchedToDetails ==
  /\ lastAction.kind = "view"
  /\ lastAction.arg = <<"details">>
  /\ Shown(World, "weekly")
  /\ ui.weekly.viewMode = "details"
  /\ ui.weekly.selectedWeek # <<>>
  /\ ui.weekly.weeklyEmployeeData = <<>>

\* C15: when the view mode is switched to 'details' while a week is
\* selected and no weekly employee data is loaded, a loadWeeklyEmployeeData
\* request for the selected week is issued.
C15_DetailsRequestsSelectedWeek ==
  SwitchedToDetails
    => \E i \in 1..Len(sent) :
         /\ sent[i].query = "weekly employee records"
         /\ <<sent[i].args.weekStart, sent[i].args.weekEnd>> = ui.weekly.selectedWeek

\* ------------------------------------------------------------------------
\* Pagination of loadEmployees
\* ------------------------------------------------------------------------
\* loadEmployees has succeeded on a table that was not written to meanwhile
LoadedUnchangedTable == EmployeesReturned /\ ~returned.tableChanged

\* How often the row at position i of the table occurs in allRecords
TimesLoaded(i) ==
  Cardinality({k \in 1..Len(returned.response) : returned.response[k].id = i})

\* C16: for an unchanging table and any per-request row order that respects
\* date descending, the records accumulated over the consecutive ranges
\* contain every row of the table exactly once.
C16_EveryRowOnce ==
  LoadedUnchangedTable => \A i \in 1..Len(table) : TimesLoaded(i) = 1

\* C16 when no two rows of the table have the same date
C16_EveryRowOnceDistinctDates ==
  (LoadedUnchangedTable
     /\ \A i, j \in 1..Len(table) : i # j => table[i].date # table[j].date)
    => \A i \in 1..Len(table) : TimesLoaded(i) = 1

\* The page requests a load may have sent for the table as it is now
MaxPageRequests == Len(table) \div rangeSize + 1

\* Every response is delivered in the end
SpecEmployeesFair == SpecEmployees /\ WF_vars(ReturnEmployeesPage)

\* C17: the pagination loop terminates: it stops at the first page that is
\* empty, shorter than rangeSize or failed, having sent
\* floor(N / rangeSize) + 1 requests for an unchanging table of N rows when
\* every request succeeded.
C17_PaginationTerminates ==
  /\ [](Len(sent) <= MaxPageRequests)
  /\ [](LoadedUnchangedTable => Len(sent) = MaxPageRequests)
  /\ [](returned.op = "loadEmployees" => pending = <<>>)
  /\ (pending # <<>>) ~> (pending = <<>>)

\* A table of as many rows as a page holds has been loaded with two requests
C17_Witness ==
  /\ LoadedUnchangedTable
  /\ Len(table) = rangeSize
  /\ Len(sent) = 2


\* ------------------------------------------------------------------------
\* A tab in use: the Dashboard has loaded, the user is on the weekly or the
\* monthly tab and selects again while requests are outstanding
\* ------------------------------------------------------------------------
MaxTabPending == 2

\* The Dashboard after initializeData went through without an error
LoadedDashboard ==
  /\ table = DashboardTable
  /\ att = [AttInit EXCEPT !.dailyData = DailySummaries, !.weeklyData = WeeklySummaries]
  /\ emp = [h \in EmpHooks |->
              IF h = "dashboard"
              THEN [EmpHookInit EXCEPT
                      !.employees = UniqueEmployees(<<DashboardTable[2], DashboardTable[1]>>),
                      !.employeeRecords =
                         NormalizeRecords(<<[DashboardTable[2] EXCEPT !.id = 2]>>)]
              ELSE EmpHookInit]
  /\ pending = <<>>
  /\ sent = <<>>

\* ... and the user has opened the weekly or the monthly tab
InitTabs ==
  /\ LoadedDashboard
  /\ \E tab \in {"weekly", "monthly"} :
       /\ ui = Render([emp |-> emp, att |-> att, pending |-> pending, sent |-> sent,
                       ui |-> [UiInit EXCEPT !.mounted = TRUE, !.activeTab = tab,
                                             !.selectedDate = 3]]).ui
       /\ lastAction = [kind |-> "tab", arg |-> <<tab>>, failed |-> FALSE, retry |-> FALSE]
  /\ returned = NotReturned
  /\ ExportIdle
  /\ NothingShown

SelectWeekAgain == SelectWeekBelow(MaxTabPending)

SelectEmployeeAgain == SelectEmployeeBelow(MaxTabPending)

SelectMonthAgain == SelectMonthBelow(MaxTabPending)

NextTabs ==
  \/ SetViewMode
  \/ SelectWeekAgain
  \/ SelectEmployeeAgain
  \/ SelectMonthAgain
  \/ ResponseArrives

SpecTabs == InitTabs /\ [][NextTabs]_vars

\* No call of the hook instance h is in flight
NoneOutstanding(h) == \A k \in 1..Len(pending) : pending[k].hook # h

\* The rows the monthly table shows: none while loading or with no employee
\* selected
MonthlyRowsDisplayed ==
  IF ~ui.monthly.monthlyLoading /\ ui.monthly.selectedEmployee # <<>>
  THEN ui.monthly.employeeMonthlyData
  ELSE <<>>

\* The employees the details view shows: none while loading
WeeklyDetailsDisplayed ==
  IF ui.weekly.viewMode = "details" /\ ~ui.weekly.employeeLoading
  THEN ui.weekly.weeklyEmployeeData
  ELSE <<>>

\* The row belongs to the employee and the month that are selected
OfSelection(row) ==
  LET range == getMonthDateRange(ui.monthly.selectedMonth)
  IN  /\ ui.monthly.selectedEmployee # <<>>
      /\ row.emp_code = Str(Trim(ui.monthly.selectedEmployee))
      /\ ~range.thrown
      /\ row.date >= range.startDate
      /\ row.date <= range.endDate

\* C18: once no monthly request is outstanding, the employeeMonthlyData that
\* MonthlyReportsTab displays is the result for the selected employee and
\* month: no row of an earlier selection is displayed under a later one.
C18_MonthlyDataOfSelection ==
  (Shown(World, "monthly") /\ NoneOutstanding("monthlyTab"))
    => \A i \in 1..Len(MonthlyRowsDisplayed) : OfSelection(MonthlyRowsDisplayed[i])

\* C19: once no weekly request is outstanding, the weeklyEmployeeData that
\* WeeklyReportsTab displays is the aggregation for the selected week (or
\* nothing).
C19_WeeklyDataOfSelection ==
  (Shown(World, "weekly") /\ NoneOutstanding("weeklyTab"))
    => \/ WeeklyDetailsDisplayed = <<>>
       \/ /\ ui.weekly.selectedWeek # <<>>
          /\ \E data \in QueryWeek(ui.weekly.selectedWeek[1], ui.weekly.selectedWeek[2]) :
               WeeklyDetailsDisplayed = ProcessWeekly(data)

\* ------------------------------------------------------------------------
\* The errors of the initialisation and Refresh sequences
\* ------------------------------------------------------------------------
\* The sequence of the initial load or of Refresh, started by the last user
\* action, has run to its end
SequenceCompleted ==
  /\ lastAction.kind \in {"mount", "refresh"}
  /\ \A k \in 1..Len(pending) : pending[k].caller.trigger.kind # lastAction.kind

\* error = attendanceError || employeeError of the Dashboard
CombinedError ==
  IF att.error # <<>> THEN att.error ELSE emp["dashboard"].error

\* C20: after the initialisation or Refresh sequence (refreshData, then
\* loadEmployees, then loadEmployeeData for the selected date) has completed,
\* if a load of the sequence failed then the combined error of the Dashboard
\* is non-empty: a later load does not erase the error of an earlier one.
C20_SequenceKeepsError ==
  (SequenceCompleted /\ lastAction.failed) => CombinedError # <<>>

\* ------------------------------------------------------------------------
\* loading of a hook instance and the operations in flight
\* ------------------------------------------------------------------------
HookInstances == EmpHooks \cup {"attendance"}

\* A load operation of the hook instance h is in flight
InFlight(h) == \E k \in 1..Len(pending) : pending[k].hook = h

\* C21: for each data hook instance, loading is true exactly when at least
\* one load operation of that instance is in flight, also when operations
\* overlap, and false once all have completed.
C21_LoadingIffInFlight ==
  \A h \in HookInstances : HookState(World, h).loading <=> InFlight(h)

\* ------------------------------------------------------------------------
\* refreshData and its two queries
\* ------------------------------------------------------------------------
\* refreshData has returned and no operation has started since
RefreshReturned == returned.op = "refreshData" /\ pending = <<>>

\* The context-prefixed message of a failed daily or weekly query
DailyMessage(err) ==
  handleSupabaseError(handleAsyncOperation(Failed(err), "Failed to load daily summaries").error,
                      "Daily Data Loading")

WeeklyMessage(err) ==
  handleSupabaseError(handleAsyncOperation(Failed(err), "Failed to load weekly summaries").error,
                      "Weekly Data Loading")

\* The messages of exactly the queries that failed, joined by '; '
JoinedMessages(dailyError, weeklyError) ==
  IF dailyError.t = "null" /\ weeklyError.t = "null" THEN <<>>
  ELSE IF weeklyError.t = "null" THEN DailyMessage(dailyError)
  ELSE IF dailyError.t = "null" THEN WeeklyMessage(weeklyError)
  ELSE DailyMessage(dailyError) \o <<"; ">> \o WeeklyMessage(weeklyError)

\* The state refreshData is to leave behind for the errors of its queries
RefreshLeaves(dailyError, weeklyError) ==
  /\ att.dailyData = IF dailyError.t = "null" THEN DailySummaries ELSE <<>>
  /\ att.weeklyData = IF weeklyError.t = "null" THEN WeeklySummaries ELSE <<>>
  /\ att.error = JoinedMessages(dailyError, weeklyError)

\* C22: refreshData handles the daily and the weekly query independently:
\* dailyData is the daily result if that query succeeded and empty
\* otherwise, weeklyData likewise, and the error of the hook is the
\* context-prefixed messages of exactly the queries that failed joined by
\* '; ' (empty when both succeed, one message without separator when one
\* fails).
C22_RefreshIndependent ==
  RefreshReturned => RefreshLeaves(returned.queryErrors[1], returned.queryErrors[2])

\* C22, for every outcome but the one in which the weekly query alone failed
C22_ButWeeklyAlone ==
  (RefreshReturned /\ ~(returned.queryErrors[1].t = "null" /\ returned.queryErrors[2].t # "null"))
    => RefreshLeaves(returned.queryErrors[1], returned.queryErrors[2])

\* ------------------------------------------------------------------------
\* The datasets a load operation leaves behind
\* ------------------------------------------------------------------------
\* The datasets of the hook instances (without loading and error)
Datasets(e, a) ==
  [h \in HookInstances |->
     IF h = "attendance" THEN <<a.dailyData, a.weeklyData>>
     ELSE <<e[h].employees, e[h].employeeRecords>>]

\* A step that starts an operation or fetches a further page
OperationGoesOn == pending' # <<>>

\* A step in which an operation of useEmployeeData completes: returned' is
\* what it returns
EmployeeOperationCompletes == pending' = <<>> /\ returned'.hook \in EmpHooks

\* The step changes no dataset but (possibly) those of the instance h
OnlyInstance(h) ==
  \A g \in HookInstances \ {h} : Datasets(emp', att')[g] = Datasets(emp, att)[g]

\* What the completing operation may do to employees and employeeRecords of
\* its instance
CompletionFrame ==
  LET h == returned'.hook
      op == returned'.op
  IN  /\ OnlyInstance(h)
      /\ (op = "loadEmployees" /\ returned'.failed)
           => /\ emp'[h].employees = <<>>
              /\ emp'[h].employeeRecords = emp[h].employeeRecords
      /\ (op \in {"loadEmployeeData", "loadEmployeeMonthlyData"} /\ returned'.failed)
           => /\ emp'[h].employeeRecords = <<>>
              /\ emp'[h].employees = emp[h].employees
      /\ (op = "loadWeeklyEmployeeData")
           => /\ emp'[h].employees = emp[h].employees
              /\ emp'[h].employeeRecords = emp[h].employeeRecords

\* C23: on failure a load operation resets the dataset it owns and touches
\* no other dataset: a failed loadEmployees leaves employees empty and
\* employeeRecords unchanged, a failed loadEmployeeData or
\* loadEmployeeMonthlyData leaves employeeRecords empty and employees
\* unchanged, and loadWeeklyEmployeeData (success or failure) changes
\* neither.  No dataset changes before an operation completes, so the
\* datasets a completing step starts from are those the operation started
\* from.
C23_FailureResetsOwnDataset ==
  [][/\ OperationGoesOn => Datasets(emp', att') = Datasets(emp, att)
     /\ EmployeeOperationCompletes => CompletionFrame]_vars

\* loadEmployees has failed after loadEmployeeData had loaded records: the
\* list is empty and the records are still there
C23_Witness ==
  /\ pending = <<>>
  /\ returned.op = "loadEmployees"
  /\ returned.failed
  /\ emp[returned.hook].employees = <<>>
  /\ emp[returned.hook].employeeRecords # <<>>

\* loadEmployeeData (or loadEmployeeMonthlyData) has failed after
\* loadEmployees had loaded the list
C23_WitnessRecords ==
  /\ pending = <<>>
  /\ returned.op \in {"loadEmployeeData", "loadEmployeeMonthlyData"}
  /\ returned.failed
  /\ emp[returned.hook].employeeRecords = <<>>
  /\ emp[returned.hook].employees # <<>>

====
